---- MODULE Spec2Model ----
(***************************************************************************)
(* Model of src/text_splitter/v4.py: split_text_into_chunks, i.e. the      *)
(* recursive weighted splitter split_by_weight followed by the packing     *)
(* pass optimize_chunks, run against a tokenizer supplied by the caller.   *)
(*                                                                         *)
(* A text is a sequence of one-character strings.  Python indices are      *)
(* 0-based and slices half-open; Slice(t, a, b) is t[a:b].  A chunk is the *)
(* tuple <<start_index, chunk_text>> of the code.                          *)
(***************************************************************************)
EXTENDS Integers, Sequences, FiniteSets, TLC

\* Bounds of the explored inputs.
MaxLen == 4
MaxTokens == 4
\* entries the get_weight cache holds before it evicts (maxsize of lru_cache,
\* 4096 in the source, kept small so that eviction is explored)
CacheSize == 3
\* calls of split_text_into_chunks repeated with the same arguments
MaxRepeats == 1

\* src/text_splitter/v4.py:6-13
PARAGRAPH_SEPARATOR_WEIGHT == 4
SENTENCE_TERMINATOR_WEIGHT == 3
OTHER_PUNCTUATION_WEIGHT == 2
SPACE_WEIGHT == 1
NO_WEIGHT == 0

\* The characters the explored texts are written in: a letter, a tab (white
\* space that is in none of the separator classes), a space, a comma, a full
\* stop (sentence terminator and other punctuation at once) and a line feed.
Alphabet == {"a", "\t", " ", ",", ".", "\n"}

\* Characters are those of ASCII.  The Unicode classes tested by get_weight,
\* each with all its ASCII members: [\n\r] (Zl and Zp have none), STerm, Po
\* (the quotation mark and the backslash are two of its fifteen), Zs.
ParagraphSeparators == {"\n", "\r"}
STerm == {".", "!", "?"}
Po == {"!", "\"", "#", "%", "&", "'", "*", ",", ".", "/", ":", ";", "?", "@", "\\"}
Zs == {" "}
\* The ASCII characters str.strip() removes: tab, line feed, vertical tab,
\* form feed, carriage return, U+001C to U+001F, space.
Whitespace == {" ", "\t", "\n", "", "\f", "\r", "", "", "", ""}

Min(a, b) == IF a < b THEN a ELSE b

\* text[a:b] of Python, for 0 <= a.
Slice(t, a, b) == SubSeq(t, Min(a, Len(t)) + 1, Min(b, Len(t)))

\* "".join(parts)
RECURSIVE Join(_)
Join(parts) == IF parts = <<>> THEN <<>> ELSE Head(parts) \o Join(Tail(parts))

\* faulty variant of get_weight: other punctuation is tested before the
\* sentence terminators
get_weight_PoFirst(char) ==
    IF char \in ParagraphSeparators THEN PARAGRAPH_SEPARATOR_WEIGHT
    ELSE IF char \in Po THEN OTHER_PUNCTUATION_WEIGHT
    ELSE IF char \in STerm THEN SENTENCE_TERMINATOR_WEIGHT
    ELSE IF char \in Zs THEN SPACE_WEIGHT
    ELSE NO_WEIGHT

\* get_weight: first matching class wins.
get_weight(char) ==
    IF char \in ParagraphSeparators THEN PARAGRAPH_SEPARATOR_WEIGHT
    ELSE IF char \in STerm THEN SENTENCE_TERMINATOR_WEIGHT
    ELSE IF char \in Po THEN OTHER_PUNCTUATION_WEIGHT
    ELSE IF char \in Zs THEN SPACE_WEIGHT
    ELSE NO_WEIGHT

\* faulty variant of lru_cache: a hit answers with the most recent entry
\* instead of the entry of the character
lru_cache_Stale(c, char) ==
    IF \E k \in 1..Len(c) : c[k].char = char
    THEN [weight |-> c[Len(c)].weight, cache |-> c]
    ELSE LET entry == [char |-> char, weight |-> get_weight(char)]
             grown == Append(c, entry)
         IN  [weight |-> entry.weight,
              cache  |-> IF Len(grown) > CacheSize THEN Tail(grown) ELSE grown]

\* lru_cache around get_weight.  The cache c is a sequence of entries, the
\* least recently used first.  A hit returns the stored weight and makes the
\* entry the most recent; a miss runs get_weight, stores the result and
\* evicts the least recently used entry of a full cache.
lru_cache(c, char) ==
    IF \E k \in 1..Len(c) : c[k].char = char
    THEN LET k == CHOOSE n \in 1..Len(c) : c[n].char = char
         IN  [weight |-> c[k].weight,
              cache  |-> Append(SubSeq(c, 1, k - 1) \o SubSeq(c, k + 1, Len(c)), c[k])]
    ELSE LET entry == [char |-> char, weight |-> get_weight(char)]
             grown == Append(c, entry)
         IN  [weight |-> entry.weight,
              cache  |-> IF Len(grown) > CacheSize THEN Tail(grown) ELSE grown]

(***************************************************************************)
(* The tokenizer is the caller's.  The explored tokenizers emit one token  *)
(* per character, either keeping or discarding white space, and either     *)
(* add a leading and a trailing special token or none; truncation cuts the *)
(* token list to max_length.                                               *)
(***************************************************************************)
Tokenizers == [special : BOOLEAN, blanks : BOOLEAN]

encode(tk, segment, max_length) ==
    LET body == SelectSeq(segment, LAMBDA c : tk.blanks \/ c \notin Whitespace)
        ids  == IF tk.special THEN <<"<s>">> \o body \o <<"</s>">> ELSE body
    IN  SubSeq(ids, 1, Min(max_length, Len(ids)))

VARIABLES
    text,           \* argument text
    tokenizer,      \* argument tokenizer
    max_tokens,     \* argument max_tokens, its value
    max_tokens_type,\* argument max_tokens, its Python type: "int" | "float"
    pc,             \* "call" | "split" | "optimize" | "returned" | "raised"
    stack,          \* activation records of split_by_weight, innermost last
    chunks,         \* initial_chunks, the list optimize_chunks works on
    optimized,      \* optimize_chunks: optimized
    oi,             \* optimize_chunks: i
    result,         \* the returned list
    error,          \* "none" | "config" | "unsplittable"
    raised_in,      \* the activation record and segment the error was raised for
    encoded,        \* whether tokenizer.encode has been called
    abandoned,      \* the chunks split_by_weight held when the error was raised
    cache,          \* the lru_cache of get_weight, least recently used first
    earlier,        \* the outcomes of the earlier calls with the same arguments
    initial_chunks  \* the list optimize_chunks was called with

\* src/app.py, POST /cn-project/store-pages and its background threads
VARIABLES
    lock,           \* the module's global lock
    request,        \* per request: where its handler stands, its body, its answer
    thread          \* per request: the thread it started, and the pages left to it

\* src/app.py, POST /vectors
VARIABLES
    vector          \* the request, where handle_embedding stands, what was raised, the answer

\* src/traceroute/traceroute.py, upload_nodes and get_next_domains
VARIABLES
    client          \* the call: its retries, the attempt, each request's outcome, the sleeps, the value

\* src/traceroute/traceroute.py, run_traceroute
VARIABLES
    tracer          \* the addresses resolved, the loop it is in, the attempts made, paths

\* src/traceroute/traceroute.py, extract_nodes
VARIABLES
    graph           \* the traces, the reverse names, the loops' positions, node_dict, the result

splitter_vars ==
    <<text, tokenizer, max_tokens, max_tokens_type, pc, stack, chunks, optimized, oi,
      result, error, raised_in, encoded, abandoned, cache, earlier, initial_chunks>>

server_vars == <<lock, request, thread>>

\* what the text splitter leaves alone
outside_splitter == <<server_vars, vector, client, tracer, graph>>

\* what the store-pages handler and its threads leave alone
outside_server == <<splitter_vars, vector, client, tracer, graph>>

\* what handle_embedding leaves alone
outside_vector == <<splitter_vars, server_vars, client, tracer, graph>>

\* what upload_nodes and get_next_domains leave alone
outside_client == <<splitter_vars, server_vars, vector, tracer, graph>>

\* what run_traceroute leave alone
outside_tracer == <<splitter_vars, server_vars, vector, client, graph>>

\* what extract_nodes leave alone
outside_graph == <<splitter_vars, server_vars, vector, client, tracer>>

vars == <<splitter_vars, server_vars, vector, client, tracer, graph>>

\* store-pages requests explored, and pages in one request
MaxRequests == 3
MaxPages == 1

Requests == 1..MaxRequests

\* request bodies: another content type, an application/json body that is
\* no JSON, JSON that is no list, a list with an item PageSchema rejects, a
\* list of valid pages
Bodies ==
    {[kind |-> k, pages |-> 0] : k \in {"not_json", "malformed", "not_list", "invalid"}}
        \cup {[kind |-> "pages", pages |-> n] : n \in 0..MaxPages}

\* what the database does during insert_pages: it works, a statement or the
\* commit fails, or the connection is refused
DatabaseOutcomes == {"ok", "fails", "refused"}

\* the server after import: lock = False, no request received, no thread
ServerInit ==
    /\ lock = FALSE
    /\ request = [r \in Requests |->
                     [at |-> "none", body |-> [kind |-> "none", pages |-> 0],
                      status |-> 0, db |-> "none", inserted_pages |-> 0]]
    /\ thread = [r \in Requests |-> [at |-> "none", left |-> 0]]

\* a text as a request carries it: empty, or one character
Payloads == {<<>>, <<"a">>}

\* POST /vectors requests: the Content-Type header by the branch it selects;
\* what request.get_json() gives (it raises on a malformed body, or returns
\* null or an empty object, an object without "text", an object with "text");
\* the "text" form field; the uploaded "file"; the raw body; and whether
\* dumped_text_to_embeddings fails on the text
VectorRequests ==
    [content_type : {"json", "form", "multipart", "other"},
     json : {"malformed", "empty", "no_text", "text"},
     json_text : Payloads,
     form_has_text : BOOLEAN,
     form_text : Payloads,
     file : {"none", "no_filename", "named"},
     file_text : Payloads,
     data : Payloads,
     embedding_fails : BOOLEAN]

NoVectorRequest ==
    [content_type |-> "other", json |-> "empty", json_text |-> <<>>,
     form_has_text |-> FALSE, form_text |-> <<>>, file |-> "none",
     file_text |-> <<>>, data |-> <<>>, embedding_fails |-> FALSE]

\* no POST /vectors request received
VectorInit ==
    vector = [at |-> "none", req |-> NoVectorRequest, text |-> <<>>,
              raised |-> "none", code |-> 0, status |-> 0, body |-> "none"]

\* the largest retries argument explored; the default is MAX_RETRIES
MaxRetries == 3

\* what one request of the client ends in: the response passed
\* raise_for_status and was read, requests.exceptions.Timeout, another
\* requests.exceptions.RequestException (an HTTP error status, a refused
\* connection), or an exception of another class raised in the try block
AttemptOutcomes == {"ok", "timeout", "request_error", "other_error"}

\* the JSON object of a next-domains response: without "domains", with an
\* empty list, with domains
DomainResponses == {"no_key", "empty", "some"}

\* upload_nodes and get_next_domains: neither called
ClientInit ==
    client = [fn |-> "none", at |-> "none", retries |-> 0, attempt |-> 0,
              outcomes |-> <<>>, sleeps |-> <<>>, response |-> "no_key",
              value |-> "none"]

\* MAX_RETRIES of traceroute.py
MAX_RETRIES == 3

\* the longest traceroute output explored, in lines, the header included
MaxLines == 3

\* addresses as the numbers they are written with: an IPv4 address is its
\* four octets, an IPv6 address its eight groups
Addresses4 == {<<10, 0, 0, 1>>, <<8, 8, 8, 8>>}
Addresses6 == {<<65152, 0, 0, 0, 0, 0, 0, 1>>, <<8193, 0, 0, 0, 0, 0, 0, 1>>}

\* a line of output: whether it starts with a hop number, and the addresses
\* extract_ips_from_line finds in it, in order
OutputLines(addresses) ==
    {[numbered |-> FALSE, ips |-> <<>>]}
        \cup {[numbered |-> TRUE, ips |-> ips] :
                 ips \in {<<>>} \cup {<<a>> : a \in addresses}
                             \cup {<<a, b>> : a \in addresses, b \in addresses}}

\* the outputs of one traceroute run
Outputs(addresses) ==
    UNION {[1..n -> OutputLines(addresses)] : n \in 0..MaxLines}

\* run_traceroute: not called
TracerInit ==
    tracer = [at |-> "none", ipv4_addr |-> FALSE, ipv6_addr |-> FALSE,
              attempt |-> 0, success |-> FALSE, paths |-> <<>>,
              attempts |-> <<>>]

\* the most traces in one call of extract_nodes, and the most hops in a trace
MaxTraces == 1
MaxHops == 3

\* the addresses the hops are made of: one private, two public
HopAddresses == {<<10, 0, 0, 1>>, <<8, 8, 8, 8>>, <<1, 1, 1, 1>>}

\* names are sequences of characters
\* the domain extract_nodes is called with: "example.org"
domain == <<"e", "x", "a", "m", "p", "l", "e", ".", "o", "r", "g">>

\* resolve_reverse_dns returned None
NoName == <<>>

\* what one call of resolve_reverse_dns may give: None, "example.org",
\* "host.example.net", "_gateway", "Router.Local"
Hostnames ==
    {NoName,
     domain,
     <<"h", "o", "s", "t", ".", "e", "x", "a", "m", "p", "l", "e", ".", "n", "e", "t">>,
     <<"_", "g", "a", "t", "e", "w", "a", "y">>,
     <<"R", "o", "u", "t", "e", "r", ".", "L", "o", "c", "a", "l">>}

\* a hop: None, or the one or two addresses that answered
Hops ==
    {<<>>} \cup {<<a>> : a \in HopAddresses}
           \cup {<<a, b>> : a \in HopAddresses, b \in HopAddresses}

\* a trace is a list of hops, traces a list of them
Traces == UNION {[1..n -> Hops] : n \in 0..MaxHops}
TraceLists == UNION {[1..n -> Traces] : n \in 0..MaxTraces}

\* extract_nodes: not called.  visits is history kept for the properties, not
\* state of the code: for each address gone through, where it stood, whether
\* its reverse name was looked up and whether it was taken as a node
GraphInit ==
    graph = [at |-> "none", traces |-> <<>>,
             t |-> 0, hop_idx |-> 0, ip_idx |-> 0, endpoint_hop_idx |-> 0,
             node_dict |-> [a \in {} |-> 0], order |-> <<>>,
             last_valid_hop_idx |-> -1, last_valid_ip |-> <<>>,
             visits |-> <<>>, result |-> <<>>]

\* the rest of the program while split_text_into_chunks is looked at
OutsideSplitterInit == ServerInit /\ VectorInit /\ ClientInit /\ TracerInit /\ GraphInit

\* get_token_count of the call in progress
get_token_count(segment) ==
    Len(encode(tokenizer, segment, max_tokens + 1))

\* faulty variant of ValidMaxTokens: the test max_tokens < 0 instead of <= 0
ValidMaxTokens_ZeroAllowed(type, m) == type = "int" /\ m >= 0

\* isinstance(max_tokens, int) and max_tokens > 0, the negation of line 43's test
ValidMaxTokens(type, m) == type = "int" /\ m > 0

\* faulty variant of Accepts: the tokens already in the chunk are not counted
Accepts_SegmentOnly(chunk_tokens, segment_tokens) ==
    segment_tokens <= max_tokens

\* faulty variant of Accepts: a chunk is never filled up to max_tokens exactly
Accepts_Strict(chunk_tokens, segment_tokens) ==
    chunk_tokens + segment_tokens < max_tokens

\* the accumulated chunk takes one more segment
Accepts(chunk_tokens, segment_tokens) ==
    chunk_tokens + segment_tokens <= max_tokens

\* faulty variant of Descends: the segment's own token count is not looked at
Descends_Fitting(segment_tokens, weight) == weight > NO_WEIGHT

\* faulty variant of Descends: the recursion stops one level early, at SPACE
Descends_AboveSpace(segment_tokens, weight) ==
    segment_tokens > max_tokens /\ weight > SPACE_WEIGHT

\* a segment over the limit is split again at the next lower weight
Descends(segment_tokens, weight) ==
    segment_tokens > max_tokens /\ weight > NO_WEIGHT

\* faulty variant of FitsAlone: a segment over the limit is taken as a chunk
FitsAlone_Always(segment_tokens) == TRUE

\* a segment within the limit starts a chunk of its own
FitsAlone(segment_tokens) == segment_tokens <= max_tokens

\* the start of the chunk that follows chunk_text
AdvanceStart(start, chunk_text) == start + Len(chunk_text)

\* The locals of one split_by_weight(text, weight, start_idx) call; at is where
\* the call stands: scanning, waiting for the recursive call on a segment or
\* on the remaining text, or about to return chunks.
NewFrame(t, weight, start_idx) ==
    [text |-> t, weight |-> weight, start_idx |-> start_idx,
     chunks |-> <<>>, current_pos |-> 0, current_chunk |-> <<>>,
     current_chunk_tokens |-> 0, current_chunk_start |-> start_idx,
     i |-> 0, at |-> "scan"]

\* faulty variant of Flush: the finished chunk is reset without being appended
Flush_Dropping(f) ==
    IF f.current_chunk # <<>>
    THEN [f EXCEPT !.current_chunk_start = @ + Len(Join(f.current_chunk)),
                   !.current_chunk = <<>>,
                   !.current_chunk_tokens = 0]
    ELSE f

\* finalize current chunk inside the loop
Flush(f) ==
    IF f.current_chunk # <<>>
    THEN LET chunk_text == Join(f.current_chunk)
         IN  [f EXCEPT !.chunks = Append(@, <<f.current_chunk_start, chunk_text>>),
                       !.current_chunk_start = AdvanceStart(@, chunk_text),
                       !.current_chunk = <<>>,
                       !.current_chunk_tokens = 0]
    ELSE f

\* finalize current chunk before the remaining text: current_chunk is kept
FlushBeforeRemaining(f) ==
    IF f.current_chunk # <<>>
    THEN LET chunk_text == Join(f.current_chunk)
         IN  [f EXCEPT !.chunks = Append(@, <<f.current_chunk_start, chunk_text>>),
                       !.current_chunk_start = AdvanceStart(@, chunk_text)]
    ELSE f

\* faulty variant of FinalChunk: the final chunk is appended even when nothing
\* was accumulated
FinalChunk_Unguarded(f) ==
    [f EXCEPT !.chunks = Append(@, <<f.current_chunk_start, Join(f.current_chunk)>>),
              !.at = "return"]

\* "Add final chunk if exists", then return chunks
FinalChunk(f) ==
    IF f.current_chunk # <<>>
    THEN [f EXCEPT !.chunks = Append(@, <<f.current_chunk_start, Join(f.current_chunk)>>),
                   !.at = "return"]
    ELSE [f EXCEPT !.at = "return"]

\* faulty variant of NextIndex: the scan index is left where it is
NextIndex_Stuck(i) == i

\* i += 1 at the end of an iteration of the scan
NextIndex(i) == i + 1

Top == stack[Len(stack)]
SetTop(f) == [stack EXCEPT ![Len(stack)] = f]

NotRaised == [weight |-> -1, segment |-> <<>>]

Texts == UNION {[1..n -> Alphabet] : n \in 0..MaxLen}

Init ==
    /\ text \in Texts
    /\ tokenizer \in Tokenizers
    /\ max_tokens_type \in {"int", "float"}
    /\ max_tokens \in IF max_tokens_type = "int" THEN -1..MaxTokens ELSE {2}
    /\ pc = "call"
    /\ stack = <<>>
    /\ chunks = <<>>
    /\ optimized = <<>>
    /\ oi = 0
    /\ result = <<>>
    /\ error = "none"
    /\ raised_in = NotRaised
    /\ encoded = FALSE
    /\ abandoned = <<>>
    /\ cache = <<>>
    /\ earlier = <<>>
    /\ initial_chunks = <<>>
    /\ OutsideSplitterInit

\* split_text_into_chunks is entered: the argument check, then the first
\* split_by_weight(text, PARAGRAPH_SEPARATOR_WEIGHT, 0)
Call ==
    /\ pc = "call"
    /\ IF ValidMaxTokens(max_tokens_type, max_tokens)
       THEN /\ pc' = "split"
            /\ stack' = <<NewFrame(text, PARAGRAPH_SEPARATOR_WEIGHT, 0)>>
            /\ error' = error
       ELSE /\ pc' = "raised"
            /\ error' = "config"
            /\ stack' = stack
    /\ UNCHANGED <<text, tokenizer, max_tokens, max_tokens_type, chunks, optimized, oi, result,
                   raised_in, encoded, abandoned, cache, earlier,
                   initial_chunks>>
    /\ UNCHANGED outside_splitter


\* the chunks of the activation records below the innermost one, outermost first
RECURSIVE OuterChunks(_)
OuterChunks(frames) ==
    IF Len(frames) <= 1 THEN <<>>
    ELSE Head(frames).chunks \o OuterChunks(Tail(frames))

\* faulty variant of Propagated: the chunks found so far are handed back
Propagated_Partial(partial) == partial

\* what the caller of split_text_into_chunks receives of the chunks held when
\* ValueError propagates: the exception carries none of them
Propagated(partial) == <<>>

\* raise ValueError inside split_by_weight: every activation is abandoned
Raise(f, segment) ==
    /\ pc' = "raised"
    /\ error' = "unsplittable"
    /\ raised_in' = [weight |-> f.weight, segment |-> segment]
    /\ abandoned' = OuterChunks(stack) \o f.chunks
    /\ result' = Propagated(OuterChunks(stack) \o f.chunks)
    /\ stack' = <<>>

\* one iteration of "while i < len(text)"
ScanChar ==
    /\ pc = "split"
    /\ Top.at = "scan"
    /\ Top.i < Len(Top.text)
    /\ LET f == Top
           char_weight == lru_cache(cache, f.text[f.i + 1]).weight
           segment == Slice(f.text, f.current_pos, f.i + 1)
           segment_tokens == get_token_count(segment)
       IN  IF char_weight >= f.weight
           THEN /\ encoded' = TRUE
                /\ IF Accepts(f.current_chunk_tokens, segment_tokens)
                   THEN /\ stack' = SetTop([f EXCEPT
                               !.current_chunk = Append(@, segment),
                               !.current_chunk_tokens = @ + segment_tokens,
                               !.current_pos = f.i + 1,
                               !.i = NextIndex(@)])
                        /\ UNCHANGED <<pc, error, raised_in, result, abandoned>>
                   ELSE LET g == Flush(f)
                        IN  IF Descends(segment_tokens, f.weight)
                            THEN /\ stack' = Append(SetTop([g EXCEPT !.at = "call_segment"]),
                                              NewFrame(segment, f.weight - 1,
                                                       g.current_chunk_start))
                                 /\ UNCHANGED <<pc, error, raised_in, result, abandoned>>
                            ELSE IF FitsAlone(segment_tokens)
                            THEN /\ stack' = SetTop([g EXCEPT
                                        !.current_chunk = Append(@, segment),
                                        !.current_chunk_tokens = segment_tokens,
                                        !.current_pos = f.i + 1,
                                        !.i = NextIndex(@)])
                                 /\ UNCHANGED <<pc, error, raised_in, result, abandoned>>
                            ELSE Raise(g, segment)
           ELSE /\ stack' = SetTop([f EXCEPT !.i = NextIndex(@)])
                /\ UNCHANGED <<pc, error, raised_in, result, abandoned, encoded>>
    /\ cache' = lru_cache(cache, Top.text[Top.i + 1]).cache
    /\ UNCHANGED <<text, tokenizer, max_tokens, max_tokens_type, chunks, optimized, oi, earlier,
                   initial_chunks>>
    /\ UNCHANGED outside_splitter


\* after the loop: "Handle remaining text" and "Add final chunk if exists"
Remaining ==
    /\ pc = "split"
    /\ Top.at = "scan"
    /\ Top.i >= Len(Top.text)
    /\ LET f == Top
           remaining == Slice(f.text, f.current_pos, Len(f.text))
           remaining_tokens == get_token_count(remaining)
       IN  IF f.current_pos < Len(f.text)
           THEN /\ encoded' = TRUE
                /\ IF Accepts(f.current_chunk_tokens, remaining_tokens)
                   THEN /\ stack' = SetTop(FinalChunk([f EXCEPT
                               !.current_chunk = Append(@, remaining)]))
                        /\ UNCHANGED <<pc, error, raised_in, result, abandoned>>
                   ELSE LET g == FlushBeforeRemaining(f)
                        IN  IF Descends(remaining_tokens, f.weight)
                            THEN /\ stack' = Append(SetTop([g EXCEPT !.at = "call_remaining"]),
                                              NewFrame(remaining, f.weight - 1,
                                                       g.current_chunk_start))
                                 /\ UNCHANGED <<pc, error, raised_in, result, abandoned>>
                            ELSE IF FitsAlone(remaining_tokens)
                            THEN /\ stack' = SetTop(FinalChunk([g EXCEPT
                                        !.chunks = Append(@, <<g.current_chunk_start, remaining>>)]))
                                 /\ UNCHANGED <<pc, error, raised_in, result, abandoned>>
                            ELSE Raise(g, remaining)
           ELSE /\ stack' = SetTop(FinalChunk(f))
                /\ UNCHANGED <<pc, error, raised_in, result, abandoned, encoded>>
    /\ UNCHANGED <<text, tokenizer, max_tokens, max_tokens_type, chunks, optimized, oi, cache, earlier,
                   initial_chunks>>
    /\ UNCHANGED outside_splitter


\* "return chunks": the caller goes on after its recursive call, or, for the
\* outermost call, initial_chunks is handed to optimize_chunks
Return ==
    /\ pc = "split"
    /\ Top.at = "return"
    /\ LET sub_chunks == Top.chunks
           rest == SubSeq(stack, 1, Len(stack) - 1)
       IN  IF rest = <<>>
           THEN /\ chunks' = sub_chunks
                /\ initial_chunks' = sub_chunks
                /\ stack' = <<>>
                /\ pc' = "optimize"
           ELSE LET p == rest[Len(rest)]
                    q == IF p.at = "call_segment"
                         THEN [p EXCEPT
                                 !.chunks = @ \o sub_chunks,
                                 !.current_chunk_start = @ + Len(Top.text),
                                 !.current_pos = p.i + 1,
                                 !.i = NextIndex(@),
                                 !.at = "scan"]
                         ELSE FinalChunk([p EXCEPT !.chunks = @ \o sub_chunks])
                IN  /\ stack' = [rest EXCEPT ![Len(rest)] = q]
                    /\ UNCHANGED <<chunks, pc, initial_chunks>>
    /\ UNCHANGED <<text, tokenizer, max_tokens, max_tokens_type, optimized, oi, result, error,
                   raised_in, encoded, abandoned, cache, earlier>>
    /\ UNCHANGED outside_splitter


\* chunk_text.strip() == ""
IsBlank(t) == \A k \in DOMAIN t : t[k] \in Whitespace

NoSplit == [found |-> FALSE, idx |-> 0, weight |-> -1]

\* faulty variant of ValidSplit: the piece moved to the successor is not counted
ValidSplit_FirstOnly(current_text, next_text, split_pos) ==
    /\ split_pos <= Len(current_text)
    /\ get_token_count(Slice(current_text, 0, split_pos)) <= max_tokens

\* whether cutting current_text at split_pos leaves two pieces within the limit
ValidSplit(current_text, next_text, split_pos) ==
    /\ split_pos <= Len(current_text)
    /\ get_token_count(Slice(current_text, 0, split_pos)) <= max_tokens
    /\ get_token_count(Slice(current_text, split_pos, Len(current_text)) \o next_text)
           <= max_tokens

\* a later candidate replaces the best one so far
Improves(char_weight, best_split_weight) == char_weight > best_split_weight

\* the get_weight cache after the lookups of
\* "for j in range(len(current_text) - 1, 0, -1)", from j downwards
RECURSIVE LookedUp(_, _, _)
LookedUp(c, current_text, j) ==
    IF j < 1 THEN c
    ELSE LookedUp(lru_cache(c, current_text[j + 1]).cache, current_text, j - 1)

\* "for j in range(len(current_text) - 1, 0, -1)", from j downwards, with the
\* get_weight cache c
RECURSIVE FindSplit(_, _, _, _, _)
FindSplit(c, current_text, next_text, j, best) ==
    IF j < 1 THEN best
    ELSE LET looked_up == lru_cache(c, current_text[j + 1])
             char_weight == looked_up.weight
             split_pos == j + 1
         IN  FindSplit(looked_up.cache, current_text, next_text, j - 1,
                 IF Improves(char_weight, best.weight)
                    /\ ValidSplit(current_text, next_text, split_pos)
                 THEN [found |-> TRUE, idx |-> split_pos, weight |-> char_weight]
                 ELSE best)

\* faulty variant of SkipMerged: the walk goes on from the chunk just merged in
SkipMerged_One(i) == i + 1

\* i += 2 after a merge: the next chunk is skipped
SkipMerged(i) == i + 2

\* faulty variant of Merges: a pair that fills the budget exactly is not merged
Merges_Strict(combined_tokens) == combined_tokens < max_tokens

\* the merge test of optimize_chunks
Merges(combined_tokens) == combined_tokens <= max_tokens

\* one iteration of "while i < len(chunks) - 1" of optimize_chunks
OptimizeStep ==
    /\ pc = "optimize"
    /\ Len(chunks) > 1
    /\ oi < Len(chunks) - 1
    /\ LET current_start == chunks[oi + 1][1]
           current_text == chunks[oi + 1][2]
           next_text == chunks[oi + 2][2]
           combined_tokens == get_token_count(current_text \o next_text)
           best == FindSplit(cache, current_text, next_text, Len(current_text) - 1, NoSplit)
       IN  IF Merges(combined_tokens)
           THEN /\ optimized' = Append(optimized, <<current_start, current_text \o next_text>>)
                /\ oi' = SkipMerged(oi)
                /\ chunks' = chunks
                /\ cache' = cache
           ELSE /\ oi' = oi + 1
                /\ cache' = LookedUp(cache, current_text, Len(current_text) - 1)
                /\ IF best.found
                   THEN /\ optimized' = Append(optimized,
                              <<current_start, Slice(current_text, 0, best.idx)>>)
                        /\ chunks' = [chunks EXCEPT ![oi + 2] =
                              <<current_start + best.idx,
                                Slice(current_text, best.idx, Len(current_text)) \o next_text>>]
                   ELSE /\ optimized' = Append(optimized, <<current_start, current_text>>)
                        /\ chunks' = chunks
    /\ encoded' = TRUE
    /\ UNCHANGED <<text, tokenizer, max_tokens, max_tokens_type, pc, stack, result, error,
                   raised_in, abandoned, earlier,
                   initial_chunks>>
    /\ UNCHANGED outside_splitter


\* faulty variant of Optimized: a single chunk goes through the strip as well
Optimized_StripsSingle ==
    LET all == IF oi < Len(chunks) THEN Append(optimized, chunks[oi + 1])
               ELSE optimized
    IN  IF Len(all) > 0 /\ \A k \in 1..Len(all[Len(all)][2]) : all[Len(all)][2][k] \in Whitespace
        THEN SubSeq(all, 1, Len(all) - 1)
        ELSE all

\* the list optimize_chunks returns once its loop is over
Optimized ==
    IF Len(chunks) <= 1 THEN chunks
    ELSE LET all == IF oi < Len(chunks) THEN Append(optimized, chunks[oi + 1])
                    ELSE optimized
         IN  IF Len(all) > 0 /\ IsBlank(all[Len(all)][2])
             THEN SubSeq(all, 1, Len(all) - 1)
             ELSE all

\* optimize_chunks returns, and with it split_text_into_chunks
OptimizeReturn ==
    /\ pc = "optimize"
    /\ ~(Len(chunks) > 1 /\ oi < Len(chunks) - 1)
    /\ result' = Optimized
    /\ pc' = "returned"
    /\ UNCHANGED <<text, tokenizer, max_tokens, max_tokens_type, stack, chunks, optimized, oi,
                   error, raised_in, encoded, abandoned, cache, earlier,
                   initial_chunks>>
    /\ UNCHANGED outside_splitter


Next ==
    \/ Call
    \/ ScanChar
    \/ Remaining
    \/ Return
    \/ OptimizeStep
    \/ OptimizeReturn

Spec == Init /\ [][Next]_vars

\* the call as a running program: a step that can be taken is taken
FairSpec == Spec /\ WF_vars(Next)

(***************************************************************************)
(* get_weight on its own: the cache outlives the calls of                  *)
(* split_text_into_chunks, so its lookups are explored for every order of  *)
(* characters, those outside the texts' alphabet included.                 *)
(***************************************************************************)
Characters == Alphabet \cup {"\r", "!", "?", ";", "b", "\"", "\\", ""}

WeightInit ==
    /\ text = <<>>
    /\ tokenizer = [special |-> FALSE, blanks |-> FALSE]
    /\ max_tokens_type = "int"
    /\ max_tokens = 1
    /\ pc = "get_weight"
    /\ stack = <<>>
    /\ chunks = <<>>
    /\ optimized = <<>>
    /\ oi = 0
    /\ result = <<>>
    /\ error = "none"
    /\ raised_in = NotRaised
    /\ encoded = FALSE
    /\ abandoned = <<>>
    /\ cache = <<>>
    /\ earlier = <<>>
    /\ initial_chunks = <<>>
    /\ OutsideSplitterInit

\* one call get_weight(char) from any caller
GetWeight(char) ==
    /\ pc = "get_weight"
    /\ cache' = lru_cache(cache, char).cache
    /\ UNCHANGED <<text, tokenizer, max_tokens, max_tokens_type, pc, stack, chunks, optimized,
                   oi, result, error, raised_in, encoded, abandoned, earlier,
                   initial_chunks>>
    /\ UNCHANGED outside_splitter


WeightNext == \E char \in Characters : GetWeight(char)

WeightSpec == WeightInit /\ [][WeightNext]_vars

(***************************************************************************)
(* The same call made again in the same process: the arguments are those   *)
(* of the call before, the get_weight cache is what that call left.        *)
(***************************************************************************)
CallAgain ==
    /\ pc \in {"returned", "raised"}
    /\ Len(earlier) < MaxRepeats
    /\ earlier' = Append(earlier, [pc |-> pc, error |-> error, result |-> result])
    /\ pc' = "call"
    /\ stack' = <<>>
    /\ chunks' = <<>>
    /\ optimized' = <<>>
    /\ oi' = 0
    /\ result' = <<>>
    /\ error' = "none"
    /\ raised_in' = NotRaised
    /\ encoded' = FALSE
    /\ abandoned' = <<>>
    /\ initial_chunks' = <<>>
    /\ UNCHANGED <<text, tokenizer, max_tokens, max_tokens_type, cache>>
    /\ UNCHANGED outside_splitter


RepeatNext ==
    \/ Next
    \/ CallAgain

RepeatSpec == Init /\ [][RepeatNext]_vars

(***************************************************************************)
(* optimize_chunks on its own: called with any list that cuts a text into  *)
(* contiguous chunks, each within max_tokens, whether or not                *)
(* split_by_weight would produce that list.                                *)
(***************************************************************************)
\* the chunks of t from index from on, cut after the positions in cuts
RECURSIVE Partition(_, _, _)
Partition(t, from, cuts) ==
    IF from >= Len(t) THEN <<>>
    ELSE LET ends == {c \in cuts : c > from} \cup {Len(t)}
             to == CHOOSE c \in ends : \A d \in ends : c <= d
         IN  <<<<from, Slice(t, from, to)>>>> \o Partition(t, to, cuts)

OptimizeInit ==
    /\ text \in Texts
    /\ tokenizer \in Tokenizers
    /\ max_tokens_type = "int"
    /\ max_tokens \in 1..MaxTokens
    /\ pc = "optimize"
    /\ stack = <<>>
    /\ \E cuts \in SUBSET (1..(Len(text) - 1)) :
          /\ chunks = Partition(text, 0, cuts)
          /\ initial_chunks = chunks
    /\ \A k \in 1..Len(chunks) : get_token_count(chunks[k][2]) <= max_tokens
    /\ optimized = <<>>
    /\ oi = 0
    /\ result = <<>>
    /\ error = "none"
    /\ raised_in = NotRaised
    /\ encoded = FALSE
    /\ abandoned = <<>>
    /\ cache = <<>>
    /\ earlier = <<>>
    /\ OutsideSplitterInit

OptimizeNext ==
    \/ OptimizeStep
    \/ OptimizeReturn

OptimizeSpec == OptimizeInit /\ [][OptimizeNext]_vars

(***************************************************************************)
(* src/app.py: POST /cn-project/store-pages.  The server handles requests  *)
(* concurrently and every accepted request starts a thread, so the steps   *)
(* of the handlers and of the threads interleave.                          *)
(***************************************************************************)
\* no call of split_text_into_chunks is in progress
SplitterIdle ==
    /\ text = <<>>
    /\ tokenizer = [special |-> FALSE, blanks |-> FALSE]
    /\ max_tokens_type = "int"
    /\ max_tokens = 1
    /\ pc = "idle"
    /\ stack = <<>>
    /\ chunks = <<>>
    /\ optimized = <<>>
    /\ oi = 0
    /\ result = <<>>
    /\ error = "none"
    /\ raised_in = NotRaised
    /\ encoded = FALSE
    /\ abandoned = <<>>
    /\ cache = <<>>
    /\ earlier = <<>>
    /\ initial_chunks = <<>>

\* a POST /cn-project/store-pages request is received and store_pages is
\* entered with it; nothing of the program's state is read yet
Receive_StorePages(r, body) ==
    /\ request[r].at = "none"
    /\ request' = [request EXCEPT ![r].at = "received", ![r].body = body]
    /\ UNCHANGED <<lock, thread>>
    /\ UNCHANGED outside_server

\* store_pages, "if lock:": answer 429, or go on with the request
CheckLock(r) ==
    /\ request[r].at = "received"
    /\ IF lock
       THEN request' = [request EXCEPT ![r].at = "done", ![r].status = 429]
       ELSE request' = [request EXCEPT ![r].at = "entered"]
    /\ UNCHANGED <<lock, thread>>
    /\ UNCHANGED outside_server

\* store_pages, content type and validation: abort(415); get_json raises
\* BadRequest, which "except ValidationError" does not catch and handle_error
\* answers with 400; 422 for no list or an invalid item
Validate(r) ==
    /\ request[r].at = "entered"
    /\ LET kind == request[r].body.kind
       IN  request' = [request EXCEPT
               ![r].at = IF kind = "pages" THEN "validated" ELSE "done",
               ![r].status = CASE kind = "not_json" -> 415
                               [] kind = "malformed" -> 400
                               [] kind \in {"not_list", "invalid"} -> 422
                               [] OTHER -> @]
    /\ UNCHANGED <<lock, thread>>
    /\ UNCHANGED outside_server

\* insert_pages of modules/database.py for n pages, after the connection is
\* made: building the rows reads page.delay_ms, which PageSchema does not
\* have (its field is delay_time), so with any page an AttributeError is
\* caught, the transaction rolled back and {} returned; so it is when the
\* database fails; with no page nothing is executed, the commit is made and
\* the dictionary returned is empty
insert_pages(n, outcome) ==
    IF n > 0 \/ outcome = "fails"
    THEN [db |-> "rolled_back", inserted_pages |-> 0]
    ELSE [db |-> "committed", inserted_pages |-> 0]

\* store_pages, "inserted_pages = insert_pages(pages)": get_pg_connection is
\* outside the try of insert_pages, so a refused connection leaves store_pages
\* as an exception and the answer is 500
InsertPages(r, outcome) ==
    /\ request[r].at = "validated"
    /\ IF outcome = "refused"
       THEN request' = [request EXCEPT ![r].at = "done", ![r].status = 500,
                                          ![r].db = "refused"]
       ELSE LET returned == insert_pages(request[r].body.pages, outcome)
            IN  request' = [request EXCEPT ![r].at = "inserted",
                                           ![r].db = returned.db,
                                           ![r].inserted_pages = returned.inserted_pages]
    /\ UNCHANGED <<lock, thread>>
    /\ UNCHANGED outside_server

\* store_pages, threading.Thread(target=process_page_content,
\* args=(inserted_pages,)).start(): the thread exists when start() returns,
\* and the handler has not answered yet
StartThread(r) ==
    /\ request[r].at = "inserted"
    /\ request' = [request EXCEPT ![r].at = "started"]
    /\ thread' = [thread EXCEPT ![r] = [at |-> "started",
                                        left |-> request[r].inserted_pages]]
    /\ UNCHANGED lock
    /\ UNCHANGED outside_server

\* store_pages, "return jsonify({"success": True})": the 200 answer, which
\* the thread it started may run ahead of
Respond(r) ==
    /\ request[r].at = "started"
    /\ request' = [request EXCEPT ![r].at = "done", ![r].status = 200]
    /\ UNCHANGED <<lock, thread>>
    /\ UNCHANGED outside_server

\* process_page_content: lock = True
ThreadSetLock(t) ==
    /\ thread[t].at = "started"
    /\ lock' = TRUE
    /\ thread' = [thread EXCEPT ![t].at = "processing"]
    /\ UNCHANGED request
    /\ UNCHANGED outside_server

\* process_page_content, "for page_uuid, page in inserted_pages.items():":
\* chunks.write_content for the next page (a failure is logged and the loop
\* goes on), or the loop ends
ThreadLoop(t) ==
    /\ thread[t].at = "processing"
    /\ IF thread[t].left > 0
       THEN thread' = [thread EXCEPT ![t].left = @ - 1]
       ELSE thread' = [thread EXCEPT ![t].at = "finally"]
    /\ UNCHANGED <<lock, request>>
    /\ UNCHANGED outside_server

\* process_page_content: finally: lock = False
ThreadRelease(t) ==
    /\ thread[t].at = "finally"
    /\ lock' = FALSE
    /\ thread' = [thread EXCEPT ![t].at = "finished"]
    /\ UNCHANGED request
    /\ UNCHANGED outside_server

ServerNext ==
    \E r \in Requests :
        \/ \E body \in Bodies : Receive_StorePages(r, body)
        \/ CheckLock(r)
        \/ Validate(r)
        \/ \E outcome \in DatabaseOutcomes : InsertPages(r, outcome)
        \/ StartThread(r)
        \/ Respond(r)
        \/ ThreadSetLock(r)
        \/ ThreadLoop(r)
        \/ ThreadRelease(r)

\* the program after import, nothing called and no request received
IdleInit == SplitterIdle /\ OutsideSplitterInit

ServerSpec == IdleInit /\ [][ServerNext]_vars

(***************************************************************************)
(* src/app.py: POST /vectors.  handle_embedding runs inside one try block; *)
(* abort() raises an HTTPException, which is an Exception; an HTTPException *)
(* that leaves the view goes to the handler registered for its code.       *)
(***************************************************************************)
\* the request arrives
Receive(req) ==
    /\ vector.at = "none"
    /\ vector' = [vector EXCEPT !.at = "body", !.req = req]
    /\ UNCHANGED outside_vector

\* lines 48-66: the text the request's content type selects, or what is
\* raised on the way
BodyText(req) ==
    CASE req.content_type = "json" ->
             IF req.json = "malformed" THEN [raised |-> "400", text |-> <<>>]
             ELSE IF req.json \in {"empty", "no_text"}
                  THEN [raised |-> "400", text |-> <<>>]
                  ELSE [raised |-> "none", text |-> req.json_text]
      [] req.content_type = "form" ->
             [raised |-> "none",
              text |-> IF req.form_has_text THEN req.form_text ELSE <<>>]
      [] req.content_type = "multipart" ->
             [raised |-> "none",
              text |-> IF req.form_has_text THEN req.form_text
                       ELSE IF req.file = "named" THEN req.file_text ELSE <<>>]
      [] OTHER ->
             [raised |-> "none", text |-> req.data]

\* handle_embedding, lines 48-66
ReadBody ==
    /\ vector.at = "body"
    /\ LET read == BodyText(vector.req)
       IN  vector' = [vector EXCEPT
                         !.at = IF read.raised = "none" THEN "check" ELSE "except",
                         !.raised = read.raised,
                         !.text = read.text]
    /\ UNCHANGED outside_vector

\* handle_embedding, "if not text: abort(400, ...)"
CheckText ==
    /\ vector.at = "check"
    /\ IF vector.text = <<>>
       THEN vector' = [vector EXCEPT !.at = "except", !.raised = "400"]
       ELSE vector' = [vector EXCEPT !.at = "embed"]
    /\ UNCHANGED outside_vector

\* handle_embedding, dumped_text_to_embeddings(text) and the 200 response
Embed ==
    /\ vector.at = "embed"
    /\ IF vector.req.embedding_fails
       THEN vector' = [vector EXCEPT !.at = "except", !.raised = "error"]
       ELSE vector' = [vector EXCEPT !.at = "done", !.status = 200, !.body = "cbor"]
    /\ UNCHANGED outside_vector

\* handle_embedding, "except Exception as e: abort(500, ...)": whatever was
\* raised in the try block, an abort(400) included, leaves the view as a 500
Except ==
    /\ vector.at = "except"
    /\ vector' = [vector EXCEPT !.at = "handler", !.code = 500]
    /\ UNCHANGED outside_vector

\* the codes handle_error is registered for
HandledCodes == {400, 401, 404, 415, 500}

\* handle_error: the JSON body and the error's code as the status
handle_error ==
    /\ vector.at = "handler"
    /\ vector' = [vector EXCEPT !.at = "done", !.status = vector.code,
                                !.body = IF vector.code \in HandledCodes
                                         THEN "json" ELSE "html"]
    /\ UNCHANGED outside_vector

VectorNext ==
    \/ \E req \in VectorRequests : Receive(req)
    \/ ReadBody
    \/ CheckText
    \/ Embed
    \/ Except
    \/ handle_error

VectorSpec == IdleInit /\ [][VectorNext]_vars

(***************************************************************************)
(* src/traceroute/traceroute.py: upload_nodes and get_next_domains, the    *)
(* same loop around one request each.  client.outcomes lists the requests  *)
(* made, client.sleeps the attempts (counted from 1) a sleep followed.     *)
(***************************************************************************)
ClientFunctions == {"upload_nodes", "get_next_domains"}

\* the call, with its retries argument
CallClient(fn, retries) ==
    /\ client.at = "none"
    /\ client' = [client EXCEPT !.fn = fn, !.at = "loop", !.retries = retries,
                                !.attempt = 0]
    /\ UNCHANGED outside_client

\* "return True", respectively "return domains" with
\* domains = res.json().get("domains", [])
SuccessValue(fn, response) ==
    IF fn = "upload_nodes" THEN "True"
    ELSE IF response = "some" THEN "domains" ELSE "[]"

\* "return False", respectively "return []" after the loop
FailureValue(fn) ==
    IF fn = "upload_nodes" THEN "False" ELSE "[]"

\* "for attempt in range(retries):" with attempts left, and the try block:
\* one request, then return, or an except clause, or the exception leaves
\* the function
Attempt(outcome, response) ==
    /\ client.at = "loop"
    /\ client.attempt < client.retries
    /\ client' = [client EXCEPT
           !.outcomes = Append(@, outcome),
           !.response = IF outcome = "ok" THEN response ELSE @,
           !.at = CASE outcome = "ok" -> "returned"
                    [] outcome = "other_error" -> "raised"
                    [] OTHER -> "failed",
           !.value = IF outcome = "ok" THEN SuccessValue(client.fn, response) ELSE @]
    /\ UNCHANGED outside_client

SleepsAfter_Always(attempt, retries) == TRUE

\* "if attempt < retries - 1:"
SleepsAfter(attempt, retries) == attempt < retries - 1

\* after an except clause: time.sleep(1) unless this was the last attempt,
\* then the next value of range(retries)
Backoff ==
    /\ client.at = "failed"
    /\ client' = [client EXCEPT
           !.sleeps = IF SleepsAfter(client.attempt, client.retries)
                      THEN Append(@, client.attempt + 1) ELSE @,
           !.attempt = @ + 1,
           !.at = "loop"]
    /\ UNCHANGED outside_client

\* range(retries) is exhausted: the error is logged, the failure value returned
GiveUp ==
    /\ client.at = "loop"
    /\ client.attempt >= client.retries
    /\ client' = [client EXCEPT !.at = "returned", !.value = FailureValue(client.fn)]
    /\ UNCHANGED outside_client

ClientNext ==
    \/ \E fn \in ClientFunctions, retries \in 0..MaxRetries : CallClient(fn, retries)
    \/ \E outcome \in AttemptOutcomes, response \in DomainResponses :
           Attempt(outcome, response)
    \/ Backoff
    \/ GiveUp

ClientSpec == IdleInit /\ [][ClientNext]_vars

(***************************************************************************)
(* src/traceroute/traceroute.py: run_traceroute and the parsing of the     *)
(* traceroute output.  A hop is the list of its addresses; the hop of a    *)
(* line that timed out is None.  tracer.attempts lists the runs of         *)
(* traceroute and traceroute6 made, with what each ended in.               *)
(***************************************************************************)
\* the hop None; a hop with addresses is never empty
None == <<>>

is_local_ip_LoopbackOnly(ip) ==
    Len(ip) = 4 /\ ip[1] = 127

\* is_local_ip: 10.0.0.0/8, 172.16.0.0/12, 192.168.0.0/16, 127.0.0.0/8; ::1,
\* fc00::/7, fe80::/10
is_local_ip(ip) ==
    IF Len(ip) = 4
    THEN \/ ip[1] = 10
         \/ ip[1] = 172 /\ ip[2] \in 16..31
         \/ ip[1] = 192 /\ ip[2] = 168
         \/ ip[1] = 127
    ELSE \/ ip = <<0, 0, 0, 0, 0, 0, 0, 1>>
         \/ ip[1] \in 64512..65023
         \/ ip[1] \in 65152..65215

\* valid_ips = [ip for ip in ips if not is_local_ip(ip)]
NotLocal(ip) == ~is_local_ip(ip)

\* parse_traceroute_output, one numbered line
ParsedHop(ips) ==
    IF ips = <<>> \/ (Len(ips) = 1 /\ is_local_ip(ips[1]))
    THEN None
    ELSE LET valid_ips == SelectSeq(ips, NotLocal)
         IN  IF valid_ips # <<>> THEN valid_ips ELSE None

RECURSIVE ParsedLines(_)
\* parse_traceroute_output, the loop: lines without a hop number are skipped
ParsedLines(lines) ==
    IF lines = <<>> THEN <<>>
    ELSE IF ~Head(lines).numbered THEN ParsedLines(Tail(lines))
         ELSE <<ParsedHop(Head(lines).ips)>> \o ParsedLines(Tail(lines))

\* parse_traceroute_output: output.splitlines()[1:] skips the header line
parse_traceroute_output(output) ==
    IF output = <<>> THEN <<>> ELSE ParsedLines(Tail(output))

HasValidHop_Always(hops) == TRUE

\* any(hop is not None for hop in hops)
HasValidHop(hops) == \E k \in 1..Len(hops) : hops[k] # None

\* the call; resolve_domain_to_ips gives an IPv4 address or None, an IPv6
\* address or None; "if ipv4_addr:"
CallTraceroute(ipv4_addr, ipv6_addr) ==
    /\ tracer.at = "none"
    /\ tracer' = [tracer EXCEPT !.ipv4_addr = ipv4_addr, !.ipv6_addr = ipv6_addr,
                                !.at = IF ipv4_addr THEN "ipv4" ELSE "fallback"]
    /\ UNCHANGED outside_tracer

\* one pass of "for attempt in range(MAX_RETRIES):" in either loop:
\* check_output times out, fails otherwise, or gives an output that is
\* parsed; a path with a valid hop is appended and ends the loop
TraceAttempt(family, ended, output) ==
    /\ tracer.at = family
    /\ tracer.attempt < MAX_RETRIES
    /\ LET hops == parse_traceroute_output(output)
           found == ended = "output" /\ HasValidHop(hops)
       IN  tracer' = [tracer EXCEPT
               !.attempts = Append(@, [family |-> family,
                                       ended |-> IF found THEN "path"
                                                 ELSE IF ended = "output"
                                                      THEN "no_valid_hop" ELSE ended]),
               !.paths = IF found THEN Append(@, hops) ELSE @,
               !.success = IF found THEN TRUE ELSE @,
               !.attempt = IF found THEN 0 ELSE @ + 1,
               !.at = IF found
                      THEN (IF family = "ipv4" THEN "fallback" ELSE "returned")
                      ELSE @]
    /\ UNCHANGED outside_tracer

\* range(MAX_RETRIES) is exhausted without a path
LoopEnd ==
    /\ tracer.at \in {"ipv4", "ipv6"}
    /\ tracer.attempt >= MAX_RETRIES
    /\ tracer' = [tracer EXCEPT !.attempt = 0,
                                !.at = IF tracer.at = "ipv4" THEN "fallback"
                                       ELSE "returned"]
    /\ UNCHANGED outside_tracer

\* "if not success and ipv6_addr:", else "return paths"
Fallback ==
    /\ tracer.at = "fallback"
    /\ tracer' = [tracer EXCEPT
           !.at = IF ~tracer.success /\ tracer.ipv6_addr THEN "ipv6" ELSE "returned"]
    /\ UNCHANGED outside_tracer

TracerNext ==
    \/ \E ipv4_addr \in BOOLEAN, ipv6_addr \in BOOLEAN :
           CallTraceroute(ipv4_addr, ipv6_addr)
    \/ \E ended \in {"timeout", "error"} :
           TraceAttempt("ipv4", ended, <<>>) \/ TraceAttempt("ipv6", ended, <<>>)
    \/ \E output \in Outputs(Addresses4) : TraceAttempt("ipv4", "output", output)
    \/ \E output \in Outputs(Addresses6) : TraceAttempt("ipv6", "output", output)
    \/ LoopEnd
    \/ Fallback

TracerSpec == IdleInit /\ [][TracerNext]_vars

(***************************************************************************)
(* src/traceroute/traceroute.py: extract_nodes.  node_dict maps an address *)
(* to its node; graph.order keeps the order of insertion, which is the     *)
(* order of the returned list.  A node's neighbours are a set, as in the   *)
(* code until the list is built.                                           *)
(***************************************************************************)
\* str.lower() on the letters of ASCII
UpperCase == <<"A", "B", "C", "D", "E", "F", "G", "H", "I", "J", "K", "L", "M", "N", "O", "P", "Q", "R", "S", "T", "U", "V", "W", "X", "Y", "Z">>
LowerCase == <<"a", "b", "c", "d", "e", "f", "g", "h", "i", "j", "k", "l", "m", "n", "o", "p", "q", "r", "s", "t", "u", "v", "w", "x", "y", "z">>
lower(name) ==
    [k \in 1..Len(name) |->
        IF \E n \in 1..26 : UpperCase[n] = name[k]
        THEN LowerCase[CHOOSE n \in 1..26 : UpperCase[n] = name[k]]
        ELSE name[k]]

\* keyword in name
Contains(name, keyword) ==
    \E i \in 0..(Len(name) - Len(keyword)) :
        SubSeq(name, i + 1, i + Len(keyword)) = keyword

\* exclude_keywords = ["_gateway", "localhost", "local"]
exclude_keywords ==
    <<<<"_", "g", "a", "t", "e", "w", "a", "y">>,
      <<"l", "o", "c", "a", "l", "h", "o", "s", "t">>,
      <<"l", "o", "c", "a", "l">>>>

\* should_exclude_domain: None and the empty name are not excluded; another
\* name is when its lower-cased form contains one of the keywords
should_exclude_domain(name) ==
    IF name = NoName THEN FALSE
    ELSE \E k \in 1..Len(exclude_keywords) : Contains(lower(name), exclude_keywords[k])

\* last_valid_ip = None
NoIp == <<>>

\* the index of the last hop that is not None, counted from 0
EndpointHopIdx(hops) ==
    CHOOSE i \in 0..(Len(hops) - 1) :
        /\ hops[i + 1] # None
        /\ \A j \in (i + 1)..(Len(hops) - 1) : hops[j + 1] = None

\* the domains of a new node
NodeDomains(hop_idx, endpoint_hop_idx, resolved) ==
    IF hop_idx = endpoint_hop_idx
    THEN <<domain>> \o
         (IF resolved # NoName /\ resolved # domain /\ ~should_exclude_domain(resolved)
          THEN <<resolved>> ELSE <<>>)
    ELSE IF resolved # NoName /\ ~should_exclude_domain(resolved)
         THEN <<resolved>> ELSE <<>>

\* node_dict[ip] = {...}
WithNode(node_dict, ip, domains) ==
    [k \in DOMAIN node_dict \cup {ip} |->
        IF k = ip THEN [ip_addr |-> ip, domains |-> domains, neighbours |-> {}]
        ELSE node_dict[k]]

Linked_OneWay(node_dict, ip, last) ==
    [k \in DOMAIN node_dict |->
        IF k = ip THEN [node_dict[k] EXCEPT !.neighbours = @ \cup {last}]
        ELSE node_dict[k]]

\* node_dict[ip]["neighbours"].add(last_valid_ip), and the other way round
Linked(node_dict, ip, last) ==
    [k \in DOMAIN node_dict |->
        IF k = ip /\ k = last THEN [node_dict[k] EXCEPT !.neighbours = @ \cup {ip}]
        ELSE IF k = ip THEN [node_dict[k] EXCEPT !.neighbours = @ \cup {last}]
        ELSE IF k = last THEN [node_dict[k] EXCEPT !.neighbours = @ \cup {ip}]
        ELSE node_dict[k]]

\* whether the body of "for ip in hop_ips:" calls resolve_reverse_dns for
\* the address: it is not local and not yet in node_dict
LooksUp(node_dict, ip) ==
    ~is_local_ip(ip) /\ ip \notin DOMAIN node_dict

\* whether the body goes on to the links for the address, or leaves it out
\* by one of its two "continue"
Keeps(node_dict, ip, resolved) ==
    /\ ~is_local_ip(ip)
    /\ ip \in DOMAIN node_dict \/ ~should_exclude_domain(resolved)

\* the body of "for ip in hop_ips:" for one address, resolved being what
\* resolve_reverse_dns answers if it is called; s holds node_dict, order,
\* last_valid_hop_idx and last_valid_ip
VisitIp(s, ip, hop_idx, endpoint_hop_idx, resolved) ==
    IF ~Keeps(s.node_dict, ip, resolved) THEN s
    ELSE LET known == ip \in DOMAIN s.node_dict
             added == IF known THEN s.node_dict
                      ELSE WithNode(s.node_dict, ip,
                                    NodeDomains(hop_idx, endpoint_hop_idx, resolved))
         IN  [node_dict |-> IF s.last_valid_hop_idx # -1 /\ s.last_valid_ip # NoIp
                            THEN Linked(added, ip, s.last_valid_ip) ELSE added,
              order |-> IF known THEN s.order ELSE Append(s.order, ip),
              last_valid_hop_idx |-> hop_idx,
              last_valid_ip |-> ip]

\* the call, with the traces
CallExtract(traces) ==
    /\ graph.at = "none"
    /\ graph' = [graph EXCEPT !.at = "traces", !.traces = traces,
                              !.node_dict = [a \in {} |-> 0], !.t = 1]
    /\ UNCHANGED outside_graph

\* "for hops in traces:", a trace: skipped when it has no hop that is not
\* None, else its endpoint is found and the walk over its hops starts
NextTrace ==
    /\ graph.at = "traces"
    /\ graph.t <= Len(graph.traces)
    /\ LET hops == graph.traces[graph.t]
       IN  IF hops = <<>> \/ ~HasValidHop(hops)
           THEN graph' = [graph EXCEPT !.t = @ + 1]
           ELSE graph' = [graph EXCEPT !.at = "hops", !.hop_idx = 0,
                                       !.endpoint_hop_idx = EndpointHopIdx(hops),
                                       !.last_valid_hop_idx = -1,
                                       !.last_valid_ip = NoIp]
    /\ UNCHANGED outside_graph

\* "for hop_idx, hop_ips in enumerate(hops):", a hop: a timeout hop is
\* passed over, the addresses of another are gone through
HopStep ==
    /\ graph.at = "hops"
    /\ graph.hop_idx < Len(graph.traces[graph.t])
    /\ IF graph.traces[graph.t][graph.hop_idx + 1] = None
       THEN graph' = [graph EXCEPT !.hop_idx = @ + 1]
       ELSE graph' = [graph EXCEPT !.at = "ips", !.ip_idx = 0]
    /\ UNCHANGED outside_graph

\* "for ip in hop_ips:", one address; resolve_reverse_dns is called anew at
\* each address that is not in node_dict and answers what it then
\* finds.  After the last address of the hop comes the next hop.
Visit(resolved) ==
    /\ graph.at = "ips"
    /\ LET hop_ips == graph.traces[graph.t][graph.hop_idx + 1]
           ip == hop_ips[graph.ip_idx + 1]
           asked == LooksUp(graph.node_dict, ip)
           s == VisitIp([node_dict |-> graph.node_dict, order |-> graph.order,
                         last_valid_hop_idx |-> graph.last_valid_hop_idx,
                         last_valid_ip |-> graph.last_valid_ip],
                        ip, graph.hop_idx, graph.endpoint_hop_idx, resolved)
           last == graph.ip_idx + 1 = Len(hop_ips)
       IN  /\ asked \/ resolved = NoName
           /\ graph' = [graph EXCEPT
                  !.node_dict = s.node_dict,
                  !.order = s.order,
                  !.last_valid_hop_idx = s.last_valid_hop_idx,
                  !.last_valid_ip = s.last_valid_ip,
                  !.visits = Append(@, [t |-> graph.t, hop_idx |-> graph.hop_idx,
                                        ip |-> ip, asked |-> asked,
                                        kept |-> Keeps(graph.node_dict, ip, resolved)]),
                  !.ip_idx = IF last THEN 0 ELSE @ + 1,
                  !.hop_idx = IF last THEN @ + 1 ELSE @,
                  !.at = IF last THEN "hops" ELSE "ips"]
    /\ UNCHANGED outside_graph

\* the hops of the trace are exhausted
TraceEnd ==
    /\ graph.at = "hops"
    /\ graph.hop_idx >= Len(graph.traces[graph.t])
    /\ graph' = [graph EXCEPT !.at = "traces", !.t = @ + 1]
    /\ UNCHANGED outside_graph

\* the traces are exhausted: the list of the nodes, in the order of insertion
ReturnNodes ==
    /\ graph.at = "traces"
    /\ graph.t > Len(graph.traces)
    /\ graph' = [graph EXCEPT
           !.at = "returned",
           !.result = [k \in 1..Len(graph.order) |-> graph.node_dict[graph.order[k]]]]
    /\ UNCHANGED outside_graph

GraphNext ==
    \/ /\ graph.at = "none"
       /\ \E traces \in TraceLists : CallExtract(traces)
    \/ NextTrace
    \/ HopStep
    \/ \E resolved \in Hostnames : Visit(resolved)
    \/ TraceEnd
    \/ ReturnNodes

GraphSpec == IdleInit /\ [][GraphNext]_vars

(***************************************************************************)
(* Properties of the returned list.                                        *)
(***************************************************************************)

\* the chunk texts of a chunk list, concatenated in list order
ChunkTexts(list) == Join([k \in 1..Len(list) |-> list[k][2]])

\* the tokens of t when t is tokenized on its own, without truncation
TokenCount(t) == Len(encode(tokenizer, t, Len(t) + 2))

HasParagraphSeparator(t) == \E k \in DOMAIN t : t[k] \in ParagraphSeparators

\* C1 (losslessness): the chunk texts of a returned list, concatenated in
\* list order, are the input text.
C1_Losslessness == pc = "returned" => ChunkTexts(result) = text

\* C2 (budget): every chunk of a returned list, tokenized on its own, has at
\* most max_tokens tokens.
C2_Budget ==
    pc = "returned" =>
        \A k \in DOMAIN result : TokenCount(result[k][2]) <= max_tokens

\* C2 witness: a list of several chunks is returned, one of them put together
\* from more than one character, holding a separator inside and filling the
\* limit exactly, measured by a tokenizer that adds special tokens.
C2_Witness ==
    /\ pc = "returned"
    /\ tokenizer.special
    /\ Len(result) >= 2
    /\ \E k \in DOMAIN result :
          /\ TokenCount(result[k][2]) = max_tokens
          /\ Len(result[k][2]) >= 3
          /\ get_weight(result[k][2][1]) > NO_WEIGHT

\* C3 (contiguity): the first chunk of a returned list starts at 0, starts
\* strictly increase, and each chunk ends where the next one starts.
C3_Contiguity ==
    pc = "returned" =>
        /\ result # <<>> => result[1][1] = 0
        /\ \A k \in 1..(Len(result) - 1) :
              /\ result[k][1] < result[k + 1][1]
              /\ result[k][1] + Len(result[k][2]) = result[k + 1][1]

\* C4 (offsets in the original text): every chunk <<start, chunk_text>> of a
\* returned list is the slice text[start : start + len(chunk_text)].
C4_OffsetsInOriginal ==
    pc = "returned" =>
        \A k \in DOMAIN result :
            Slice(text, result[k][1], result[k][1] + Len(result[k][2])) = result[k][2]

\* text[:k] is a paragraph with its trailing separators, text[k:] a second
\* paragraph; each fits max_tokens alone and the whole text does not
TwoParagraphs(k) ==
    /\ k \in 2..(Len(text) - 1)
    /\ text[1] \notin ParagraphSeparators
    /\ text[k] \in ParagraphSeparators
    /\ \A j \in 1..(k - 1) :
          text[j] \in ParagraphSeparators => text[j + 1] \in ParagraphSeparators
    /\ ~HasParagraphSeparator(Slice(text, k, Len(text)))
    /\ TokenCount(Slice(text, 0, k)) <= max_tokens
    /\ TokenCount(Slice(text, k, Len(text))) <= max_tokens
    /\ TokenCount(text) > max_tokens

\* C5 (scenario B): for two paragraphs that fit one by one and not together
\* exactly two chunks are returned, the first one ending with the paragraph
\* separator and the second one being the second paragraph.
C5_TwoParagraphs ==
    pc = "returned" =>
        \A k \in DOMAIN text :
            TwoParagraphs(k) =>
                /\ Len(result) = 2
                /\ result[1][2][Len(result[1][2])] \in ParagraphSeparators
                /\ ChunkTexts(result) = text

\* the token counts split_by_weight adds up while it scans t at the paragraph
\* level: one count per piece ending at a paragraph separator, from piece
\* start pos and scan index k on, and one for the remaining text
RECURSIVE ParagraphTokenSum(_, _, _)
ParagraphTokenSum(t, pos, k) ==
    IF k >= Len(t)
    THEN IF pos < Len(t) THEN get_token_count(Slice(t, pos, Len(t))) ELSE 0
    ELSE IF t[k + 1] \in ParagraphSeparators
    THEN get_token_count(Slice(t, pos, k + 1)) + ParagraphTokenSum(t, k + 1, k + 1)
    ELSE ParagraphTokenSum(t, pos, k + 1)

\* C6 as claimed (scenario A): when the whole text has at most max_tokens
\* tokens, the returned list is the one chunk <<0, text>>.
C6_WholeTextFits_Claimed ==
    (pc = "returned" /\ TokenCount(text) <= max_tokens) => result = <<<<0, text>>>>

\* C6 as amended: when the text is not empty and the token counts of its
\* paragraph-level pieces, each tokenized on its own, add up to at most
\* max_tokens, the returned list is the one chunk <<0, text>>.
C6_WholeTextFits ==
    (pc = "returned" /\ text # <<>> /\ ParagraphTokenSum(text, 0, 0) <= max_tokens)
        => result = <<<<0, text>>>>

\* C6 witness: a text of several paragraph-level pieces, measured with special
\* tokens, is returned as one chunk.
C6_Witness ==
    /\ pc = "returned"
    /\ tokenizer.special
    /\ HasParagraphSeparator(Slice(text, 0, Len(text) - 1))
    /\ ParagraphTokenSum(text, 0, 0) <= max_tokens
    /\ result = <<<<0, text>>>>

\* C7 (configuration error): once the argument check is over, a max_tokens
\* that is not an integer or is <= 0 has ended the call with the configuration
\* error, no tokenizer call made, no activation of split_by_weight started and
\* no chunk produced; and that error ends no other call.
C7_ConfigurationError ==
    /\ (pc # "call" /\ (max_tokens_type # "int" \/ max_tokens <= 0)) =>
          /\ pc = "raised"
          /\ error = "config"
          /\ ~encoded
          /\ stack = <<>> /\ chunks = <<>> /\ optimized = <<>> /\ result = <<>>
    /\ error = "config" => (max_tokens_type # "int" \/ max_tokens <= 0)

\* C7 witness: the call with max_tokens = 0 has raised.
C7_Witness ==
    pc = "raised" /\ error = "config" /\ max_tokens_type = "int" /\ max_tokens = 0

\* the activation records of split_by_weight that scan at level NONE
ScanningAtNone == {n \in DOMAIN stack : stack[n].weight = NO_WEIGHT /\ stack[n].at = "scan"}

\* C8 (unsplittable segment): the error of split_by_weight is raised at level
\* NONE only, for a segment of one character whose own token count exceeds
\* max_tokens; at level NONE the candidate segment is the single character
\* under the scan index, the scan has passed no character that exceeds
\* max_tokens, and no call returns for a text holding such a character.
C8_UnsplittableAtNone ==
    /\ error = "unsplittable" =>
          /\ pc = "raised"
          /\ raised_in.weight = NO_WEIGHT
          /\ Len(raised_in.segment) = 1
          /\ get_token_count(raised_in.segment) > max_tokens
    /\ pc = "split" =>
          \A n \in ScanningAtNone :
              /\ stack[n].current_pos = stack[n].i
              /\ \A k \in 1..stack[n].i :
                    get_token_count(<<stack[n].text[k]>>) <= max_tokens
    /\ pc = "returned" =>
          \A k \in DOMAIN text : get_token_count(<<text[k]>>) <= max_tokens

\* C8 witness: the error was raised at level NONE, inside nested calls, after
\* the text before the character had been scanned.
C8_Witness ==
    /\ error = "unsplittable"
    /\ raised_in.weight = NO_WEIGHT
    /\ Len(text) >= 3
    /\ get_token_count(<<text[1]>>) <= max_tokens
    /\ get_token_count(<<text[Len(text)]>>) > max_tokens

\* a text without any separator: every character has weight NONE
Unbroken(t) == t # <<>> /\ \A k \in DOMAIN t : get_weight(t[k]) = NO_WEIGHT

Ended == pc \in {"returned", "raised"}

\* C9 as claimed (scenario E): the call for an unbroken word of more than
\* max_tokens tokens ends with the unsplittable-segment error.
C9_UnbrokenWord_Claimed ==
    (Ended /\ ValidMaxTokens(max_tokens_type, max_tokens)
           /\ Unbroken(text) /\ TokenCount(text) > max_tokens)
        => error = "unsplittable"

\* C9 as amended: the call for an unbroken word in which one character alone
\* has more than max_tokens tokens ends with the unsplittable-segment error.
C9_UnbrokenWord ==
    (Ended /\ ValidMaxTokens(max_tokens_type, max_tokens)
           /\ Unbroken(text)
           /\ \E k \in DOMAIN text : TokenCount(<<text[k]>>) > max_tokens)
        => (pc = "raised" /\ error = "unsplittable" /\ result = <<>>)

\* C9 witness: an unbroken word of several characters has raised the error.
C9_Witness ==
    /\ error = "unsplittable"
    /\ Unbroken(text)
    /\ Len(text) >= 2
    /\ TokenCount(text) > max_tokens

\* the input of scenario C: no separator, more than max_tokens tokens in all,
\* every character within max_tokens
UnbrokenRun ==
    /\ ValidMaxTokens(max_tokens_type, max_tokens)
    /\ Unbroken(text)
    /\ TokenCount(text) > max_tokens
    /\ \A k \in DOMAIN text : TokenCount(<<text[k]>>) <= max_tokens

\* C10 as claimed (scenario C): the call for such a run returns at least two
\* chunks, each within max_tokens.
C10_UnbrokenRun_Claimed ==
    (Ended /\ UnbrokenRun) =>
        /\ pc = "returned"
        /\ Len(result) >= 2
        /\ \A k \in DOMAIN result : TokenCount(result[k][2]) <= max_tokens

\* C10 as amended: the call for such a run returns without error, every
\* returned chunk is within max_tokens, and at least two chunks are returned
\* when the last character of the text is not white space.
C10_UnbrokenRun ==
    (Ended /\ UnbrokenRun) =>
        /\ pc = "returned"
        /\ error = "none"
        /\ \A k \in DOMAIN result : TokenCount(result[k][2]) <= max_tokens
        /\ text[Len(text)] \notin Whitespace => Len(result) >= 2

\* C10 witness: a run that went down to level NONE is returned as three chunks
\* or more.
C10_Witness ==
    /\ pc = "returned"
    /\ UnbrokenRun
    /\ Len(result) >= 3
    /\ text[Len(text)] \notin Whitespace

\* C11 (failure is fatal): a call that ended with an error has returned no
\* list; the chunks held by split_by_weight when the error was raised, in the
\* outer pass and from finished recursive calls, reach neither the
\* optimizer nor the caller.
C11_NoPartialResult ==
    error # "none" =>
        /\ pc = "raised"
        /\ result = <<>>
        /\ chunks = <<>> /\ optimized = <<>>
        /\ stack = <<>>

\* C11 witness: the error was raised below the outermost call after chunks
\* had been found.
C11_Witness ==
    /\ pc = "raised"
    /\ error = "unsplittable"
    /\ Len(abandoned) >= 2
    /\ raised_in.weight < PARAGRAPH_SEPARATOR_WEIGHT

\* the text has its only paragraph separator at index k, followed by more
\* text, and holds a sentence terminator and a space; the text as a whole is
\* over the budget, while cutting right after the paragraph separator and
\* cutting right after some sentence terminator both give two pieces within
\* the budget
ParagraphAndSentenceFeasible(k) ==
    /\ k \in 1..(Len(text) - 1)
    /\ \A n \in 1..Len(text) : (text[n] \in ParagraphSeparators) <=> (n = k)
    /\ \E n \in 1..Len(text) : text[n] \in STerm
    /\ \E n \in 1..Len(text) : text[n] \in Zs
    /\ TokenCount(text) > max_tokens
    /\ TokenCount(Slice(text, 0, k)) <= max_tokens
    /\ TokenCount(Slice(text, k, Len(text))) <= max_tokens
    /\ \E n \in 1..(Len(text) - 1) :
          /\ text[n] \in STerm
          /\ TokenCount(Slice(text, 0, n)) <= max_tokens
          /\ TokenCount(Slice(text, n, Len(text))) <= max_tokens

\* C12 (weight preference): when a cut at the paragraph break and a cut at a
\* sentence terminator are both within the budget, the returned list is the
\* text cut once, immediately after the paragraph separator.
C12_WeightPreference ==
    \A k \in 1..MaxLen :
        (pc = "returned" /\ ParagraphAndSentenceFeasible(k)) =>
            result = << <<0, Slice(text, 0, k)>>, <<k, Slice(text, k, Len(text))>> >>

\* a step of the optimizer's walk over the chunk pairs
OptimizerWalks == pc = "optimize" /\ pc' = "optimize" /\ oi' # oi

\* the step merged chunk oi and its successor: one chunk with both texts and
\* the first start offset is appended, and the walk advances past both
MergedPair ==
    /\ optimized' = Append(optimized,
                           <<chunks[oi + 1][1], chunks[oi + 1][2] \o chunks[oi + 2][2]>>)
    /\ oi' = oi + 2
    /\ chunks' = chunks

\* the step kept the pair apart: the walk advances by one chunk, and what is
\* appended is a prefix of chunk oi
KeptApart ==
    /\ oi' = oi + 1
    /\ Len(optimized') = Len(optimized) + 1
    /\ LET first == optimized'[Len(optimized')]
       IN  /\ first[1] = chunks[oi + 1][1]
           /\ first[2] = Slice(chunks[oi + 1][2], 0, Len(first[2]))

\* C13 as claimed: the pair is merged exactly when the token counts of the two
\* chunks, each counted on its own, add up to at most max_tokens.
C13_MergeRule_Claimed ==
    [][OptimizerWalks =>
          IF TokenCount(chunks[oi + 1][2]) + TokenCount(chunks[oi + 2][2]) <= max_tokens
          THEN MergedPair ELSE KeptApart]_vars

\* C13 (optimizer merge rule): the pair is merged exactly when the token count
\* of the two texts joined into one string is at most max_tokens; the merged
\* chunk is text(i) followed by text(i+1) at chunk i's start offset and the
\* walk advances past both chunks.
C13_MergeRule ==
    [][OptimizerWalks =>
          IF TokenCount(chunks[oi + 1][2] \o chunks[oi + 2][2]) <= max_tokens
          THEN MergedPair ELSE KeptApart]_vars

\* C13 witness: the first pair has been merged although the two counts add up
\* to more than max_tokens.
C13_Witness ==
    /\ pc = "optimize"
    /\ oi = 2
    /\ optimized = << <<chunks[1][1], chunks[1][2] \o chunks[2][2]>> >>
    /\ TokenCount(chunks[1][2]) + TokenCount(chunks[2][2]) > max_tokens

\* the last character of chunk oi has a weight above SPACE
HighWeightBoundary ==
    LET current_text == chunks[oi + 1][2]
    IN  /\ Len(current_text) > 0
        /\ get_weight(current_text[Len(current_text)]) > SPACE_WEIGHT

\* C14 (no merge across a high-weight boundary): a chunk that ends with
\* punctuation, a sentence terminator or a paragraph separator is never merged
\* with its successor, even when the pair fits max_tokens.
C14_NoMergeAcrossHighWeight ==
    [][(OptimizerWalks /\ HighWeightBoundary) => ~MergedPair]_vars

\* the positions inside chunk oi at which both pieces are within max_tokens
ValidPositions ==
    {p \in 1..Len(chunks[oi + 1][2]) : ValidSplit(chunks[oi + 1][2], chunks[oi + 2][2], p)}

\* p is a valid position whose preceding character has the highest weight
\* among the valid positions, and the last of those
BestPosition(p) ==
    LET current_text == chunks[oi + 1][2]
    IN  /\ p \in ValidPositions
        /\ \A q \in ValidPositions :
              \/ get_weight(current_text[q]) < get_weight(current_text[p])
              \/ get_weight(current_text[q]) = get_weight(current_text[p]) /\ q <= p

\* chunk oi was cut at p: its first p characters stay, the rest moves to the
\* front of its successor, whose start offset becomes start(oi) + p
RedistributedAt(p) ==
    LET current_start == chunks[oi + 1][1]
        current_text == chunks[oi + 1][2]
        next_text == chunks[oi + 2][2]
    IN  /\ optimized' = Append(optimized, <<current_start, Slice(current_text, 0, p)>>)
        /\ chunks' = [chunks EXCEPT ![oi + 2] =
                         <<current_start + p,
                           Slice(current_text, p, Len(current_text)) \o next_text>>]

\* C15 (optimizer redistribution rule): when chunk oi and its successor are
\* not merged, chunk oi is cut at a valid position of highest separator
\* weight, the one closest to its end.
C15_Redistribution ==
    [][(OptimizerWalks /\ oi' = oi + 1 /\ ValidPositions # {}) =>
          \E p \in ValidPositions : BestPosition(p) /\ RedistributedAt(p)]_vars

\* the optimizer's list when its walk is over: the chunks it appended and the
\* last chunk when that one was not merged
AfterWalk ==
    IF oi < Len(chunks) THEN Append(optimized, chunks[oi + 1]) ELSE optimized

\* list without its final chunk when that chunk is empty or white space only
DropBlankFinal(list) ==
    IF Len(list) > 0 /\ IsBlank(list[Len(list)][2])
    THEN SubSeq(list, 1, Len(list) - 1)
    ELSE list

\* C16 as claimed: the blank final chunk is dropped for every chunk list, a
\* list of a single chunk included, and nothing else is dropped.
C16_DropBlankFinal_Claimed ==
    pc = "returned" => result = DropBlankFinal(AfterWalk)

\* C16 (blank final chunk): for a list of two or more chunks the result is the
\* optimizer's list without its final chunk when that chunk is empty or white
\* space only, and the whole list otherwise; a list of at most one chunk is
\* returned as it is.
C16_DropBlankFinal ==
    pc = "returned" =>
        IF Len(chunks) >= 2
        THEN result = DropBlankFinal(AfterWalk)
        ELSE result = chunks

\* C16 witness: a blank final chunk of a longer list has been dropped, and the
\* chunks before it were kept.
C16_Witness ==
    /\ pc = "returned"
    /\ Len(chunks) >= 2
    /\ IsBlank(AfterWalk[Len(AfterWalk)][2])
    /\ Len(AfterWalk) >= 2
    /\ result = SubSeq(AfterWalk, 1, Len(AfterWalk) - 1)

\* the weight the classification rules give each explored character:
\* paragraph separator 4, sentence terminator 3, other punctuation 2, space
\* separator 1, anything else 0
Classified(char) ==
    CASE char \in {"\n", "\r"} -> 4
      [] char \in {".", "!", "?"} -> 3
      [] char \in {",", ";", "\"", "\\"} -> 2
      [] char = " " -> 1
      [] OTHER -> 0

\* C17 (get_weight): whatever the cache holds, a call for any character
\* returns one of 4, 3, 2, 1, 0, the weight of the first class that matches
\* in the order paragraph separator, sentence terminator, other punctuation,
\* space separator; a character that is both a sentence terminator and other
\* punctuation gets 3; every stored entry is the weight of its character.
C17_GetWeight ==
    /\ \A char \in Characters :
          LET returned == lru_cache(cache, char).weight
          IN  /\ returned \in {4, 3, 2, 1, 0}
              /\ returned = Classified(char)
              /\ (char \in STerm \cap Po) => returned = SENTENCE_TERMINATOR_WEIGHT
    /\ \A k \in 1..Len(cache) : cache[k].weight = Classified(cache[k].char)

\* C17 witness: the cache is full and answers for '!', a sentence terminator
\* that is other punctuation as well, from a stored entry.
C17_Witness ==
    /\ pc = "get_weight"
    /\ Len(cache) = CacheSize
    /\ "!" \in STerm \cap Po
    /\ \E k \in 1..Len(cache) : cache[k].char = "!" /\ cache[k].weight = 3
    /\ lru_cache(cache, "!").cache # cache

\* C18 (determinism): a call that ends after earlier calls with the same
\* text, max_tokens and tokenizer ends as each of them did: the same chunk
\* list (offsets, texts, order) or the same error, whatever those calls left
\* in the get_weight cache.
C18_Determinism ==
    Ended =>
        \A k \in 1..Len(earlier) :
            /\ pc = earlier[k].pc
            /\ error = earlier[k].error
            /\ result = earlier[k].result

\* C18 witness: a repeated call, started with a full cache, has returned
\* several chunks.
C18_Witness ==
    /\ Len(earlier) >= 1
    /\ pc = "returned"
    /\ Len(result) >= 2
    /\ Len(cache) = CacheSize

\* the accumulated chunk of a finished activation f occurs once among f's
\* chunks, and nothing follows the chunks of the suffix: the texts of the
\* chunks, in order, are the text the activation was called with
EmittedOnce(f) == ChunkTexts(f.chunks) = f.text

\* C19 (trailing flush): when a call of split_by_weight is about to return,
\* every chunk it accumulated has been emitted exactly once, the chunk flushed
\* before the unconsumed suffix coming before the chunks of that suffix.
C19_TrailingFlushOnce ==
    \A k \in 1..Len(stack) : stack[k].at = "return" => EmittedOnce(stack[k])

\* the scan of the innermost activation stands at a separator of its weight
\* level: the text since the last boundary is a candidate segment
AtCandidate ==
    /\ pc = "split"
    /\ Top.at = "scan"
    /\ Top.i < Len(Top.text)
    /\ get_weight(Top.text[Top.i + 1]) >= Top.weight

CandidateSegment == Slice(Top.text, Top.current_pos, Top.i + 1)

\* accumulated token count of the current chunk + the candidate's own count
CandidateSum == Top.current_chunk_tokens + get_token_count(CandidateSegment)

\* the step appended the candidate to the current chunk and flushed nothing
JoinsCurrent ==
    /\ pc' = "split"
    /\ Len(stack') = Len(stack)
    /\ stack'[Len(stack)].current_chunk = Append(Top.current_chunk, CandidateSegment)
    /\ stack'[Len(stack)].current_chunk_tokens = CandidateSum
    /\ stack'[Len(stack)].chunks = Top.chunks
    /\ stack'[Len(stack)].current_pos = Top.i + 1

\* the step flushed the current chunk, whole, as the activation's next chunk
FlushesCurrent ==
    stack'[Len(stack)].chunks =
        Append(Top.chunks, <<Top.current_chunk_start, Join(Top.current_chunk)>>)

IsPrefix(a, b) == Len(a) <= Len(b) /\ a = SubSeq(b, 1, Len(a))

\* C20 (greedy acceptance): a candidate segment joins the current chunk
\* exactly when the accumulated count plus its own count is within
\* max_tokens; a chunk is flushed during the scan only when the next candidate
\* would have made that sum exceed max_tokens, and it is flushed whole; the
\* chunks and the boundary position of an activation are never taken back.
C20_GreedyAcceptance ==
    [][/\ AtCandidate =>
            /\ (CandidateSum <= max_tokens) <=> JoinsCurrent
            /\ (CandidateSum > max_tokens /\ Top.current_chunk # <<>> /\ pc' = "split")
                  => FlushesCurrent
            /\ (pc' = "split" /\ stack'[Len(stack)].chunks # Top.chunks)
                  => CandidateSum > max_tokens
       /\ (pc = "split" /\ pc' = "split") =>
            \A k \in 1..Min(Len(stack), Len(stack')) :
                /\ IsPrefix(stack[k].chunks, stack'[k].chunks)
                /\ stack[k].current_pos <= stack'[k].current_pos]_vars

\* C20 witness: the scan has flushed a chunk and has since accepted two
\* segments into the next one.
C20_Witness ==
    /\ pc = "split"
    /\ Top.at = "scan"
    /\ Len(Top.chunks) >= 1
    /\ Len(Top.current_chunk) >= 2
    /\ Top.current_chunk_tokens <= max_tokens

\* the step is a recursive call of split_by_weight
Recursed == pc = "split" /\ pc' = "split" /\ Len(stack') = Len(stack) + 1

\* the text the innermost activation is deciding about: the candidate
\* segment during the scan, the unconsumed suffix after it
UnderDecision ==
    IF Top.i < Len(Top.text) THEN CandidateSegment
    ELSE Slice(Top.text, Top.current_pos, Len(Top.text))

\* C21 (recursion): split_by_weight calls itself only on the candidate segment
\* or the trailing suffix, only when that text's own token count exceeds
\* max_tokens and the level is above NONE, at the level weight - 1, with the
\* offset of that text in the original text; a text whose own count fits is
\* never handed to a lower level.
C21_Recursion ==
    [][/\ Recursed =>
            LET callee == stack'[Len(stack')]
            IN  /\ Top.at = "scan"
                /\ callee.text = UnderDecision
                /\ get_token_count(UnderDecision) > max_tokens
                /\ Top.weight > NO_WEIGHT
                /\ callee.weight = Top.weight - 1
                /\ callee.start_idx = Top.start_idx + Top.current_pos
                /\ callee.text = Slice(text, callee.start_idx,
                                       callee.start_idx + Len(callee.text))
                /\ callee.chunks = <<>> /\ callee.i = 0
       /\ (pc = "split" /\ Top.at = "scan"
             /\ get_token_count(UnderDecision) <= max_tokens) => ~Recursed]_vars

\* C21 witness: a recursive call is in progress on a text that starts inside
\* the original text, two levels below the paragraph level.
C21_Witness ==
    /\ pc = "split"
    /\ Len(stack) >= 3
    /\ Top.start_idx > 0
    /\ Top.weight = stack[Len(stack) - 1].weight - 1
    /\ get_token_count(Top.text) > max_tokens

\* number of weight levels, PARAGRAPH down to NONE
Levels == PARAGRAPH_SEPARATOR_WEIGHT - NO_WEIGHT + 1

\* C22 (termination): every call ends, with a chunk list or with an error;
\* on the way the scan index of the running activation grows by one in every
\* iteration and no index is taken back, the optimizer's index grows in every
\* iteration, every recursive call is on a part of its caller's text at the
\* next lower level, and at most five activations are nested.
C22_Termination ==
    /\ <>Ended
    /\ [](/\ Len(stack) <= Levels
          /\ \A k \in 1..Len(stack) :
                /\ stack[k].weight = PARAGRAPH_SEPARATOR_WEIGHT - (k - 1)
                /\ stack[k].i <= Len(stack[k].text)
                /\ k > 1 => /\ Len(stack[k].text) <= Len(stack[k - 1].text)
                            /\ stack[k].text =
                                  Slice(stack[k - 1].text, stack[k - 1].current_pos,
                                        stack[k - 1].current_pos + Len(stack[k].text)))
    /\ [][/\ (pc = "split" /\ pc' = "split") =>
               \A k \in 1..Min(Len(stack), Len(stack')) : stack[k].i <= stack'[k].i
          /\ (pc = "split" /\ pc' = "split" /\ Top.at = "scan" /\ Top.i < Len(Top.text)
                /\ Len(stack') = Len(stack)) => stack'[Len(stack)].i = Top.i + 1
          /\ (pc = "optimize" /\ pc' = "optimize") => oi' > oi]_vars

\* C22 witness: five activations of split_by_weight are nested, the innermost
\* at level NONE.
C22_Witness ==
    /\ pc = "split"
    /\ Len(stack) = Levels
    /\ Top.weight = NO_WEIGHT
    /\ Top.i > 0

\* the step appended to the optimizer's list a chunk made of two chunks
AppendedMerge ==
    /\ Len(optimized') = Len(optimized) + 1
    /\ optimized'[Len(optimized')][2] = chunks[oi + 1][2] \o chunks[oi + 2][2]

\* C23 (single pass): the optimizer walks the chunks once, left to right.  A
\* merge takes the two chunks at the walk's position and moves the walk past
\* both, so no chunk enters two merges; what has been appended to the
\* optimizer's list, a merged chunk included, is never touched again; a step
\* changes no chunk other than the successor it redistributes into; and the
\* list handed back is the walk's list, not optimized a second time.
C23_SinglePass ==
    [][/\ OptimizerWalks =>
            /\ IsPrefix(optimized, optimized')
            /\ oi' > oi
            /\ AppendedMerge => (oi' = oi + 2 /\ chunks' = chunks)
            /\ \A k \in 1..Len(chunks) : k # oi + 2 => chunks'[k] = chunks[k]
            /\ Len(chunks') = Len(chunks)
       /\ (pc = "optimize" /\ pc' = "returned") =>
            /\ result' \in {AfterWalk, SubSeq(AfterWalk, 1, Len(AfterWalk) - 1)}
            /\ UNCHANGED <<chunks, optimized, oi>>]_vars

\* C23 witness: the first two chunks were merged, the third chunk follows the
\* merged one in the returned list, and the three together are within
\* max_tokens.
C23_Witness ==
    /\ pc = "returned"
    /\ Len(chunks) >= 3
    /\ Len(result) >= 2
    /\ result[1] = <<chunks[1][1], chunks[1][2] \o chunks[2][2]>>
    /\ result[2][2] = chunks[3][2]
    /\ get_token_count(chunks[1][2] \o chunks[2][2] \o chunks[3][2]) <= max_tokens

\* each chunk of the list starts where the one before it ends
Contiguous(list) ==
    \A k \in 1..(Len(list) - 1) : list[k + 1][1] = list[k][1] + Len(list[k][2])

\* each chunk of the list is within max_tokens
WithinBudget(list) ==
    \A k \in 1..Len(list) : TokenCount(list[k][2]) <= max_tokens

\* C24 (the optimizer preserves the partition): when optimize_chunks is called
\* with a contiguous list of chunks within max_tokens, the list it returns is
\* contiguous, starts at the same offset, has every chunk within max_tokens,
\* and its texts joined are the input's texts joined, up to white space at the
\* end that went with the dropped final chunk.
C24_PreservesPartition ==
    (pc = "returned" /\ Contiguous(initial_chunks) /\ WithinBudget(initial_chunks)) =>
        /\ Contiguous(result)
        /\ result # <<>> => result[1][1] = initial_chunks[1][1]
        /\ WithinBudget(result)
        /\ LET given == ChunkTexts(initial_chunks)
               returned == ChunkTexts(result)
           IN  /\ IsPrefix(returned, given)
               /\ IsBlank(SubSeq(given, Len(returned) + 1, Len(given)))
               /\ returned # given =>
                     /\ Len(initial_chunks) >= 2
                     /\ Len(result) = Len(AfterWalk) - 1

\* C24 witness: a list of three or more chunks came back with fewer chunks,
\* at least two, and with other texts than it was given.
C24_Witness ==
    /\ pc = "returned"
    /\ Contiguous(initial_chunks) /\ WithinBudget(initial_chunks)
    /\ Len(initial_chunks) >= 3
    /\ Len(result) >= 2
    /\ Len(result) < Len(initial_chunks)
    /\ \E k \in 1..Len(result) : result[k][2] # initial_chunks[k][2]

\* no chunk of the list has an empty text
NoEmptyText(list) == \A k \in 1..Len(list) : Len(list[k][2]) >= 1

\* C25 (no empty chunk): no returned chunk has an empty text; every segment
\* accepted by split_by_weight and every chunk it holds has at least one
\* character; the optimizer's chunks, the two pieces of a redistribution
\* among them, are never empty; an empty input text yields the empty list.
C25_NoEmptyChunk ==
    /\ NoEmptyText(result)
    /\ \A k \in 1..Len(stack) :
          /\ NoEmptyText(stack[k].chunks)
          /\ \A n \in 1..Len(stack[k].current_chunk) : Len(stack[k].current_chunk[n]) >= 1
    /\ NoEmptyText(chunks)
    /\ NoEmptyText(optimized)
    /\ (pc = "returned" /\ text = <<>>) => result = <<>>
    /\ text = <<>> => (chunks = <<>> /\ \A k \in 1..Len(stack) : stack[k].chunks = <<>>)

\* C25 witness: a redistribution has moved the end of one chunk to the front
\* of the next, and both pieces have text.
C25_Witness ==
    /\ pc = "optimize"
    /\ oi >= 1
    /\ oi < Len(chunks)
    /\ Len(chunks[oi + 1][2]) > Len(initial_chunks[oi + 1][2])
    /\ Len(optimized[Len(optimized)][2]) >= 1

\* the thread started by request t has been started and has not finished
Running(t) == thread[t].at \in {"started", "processing", "finally"}

\* C26 (one processing thread at a time): while a thread started by
\* store-pages runs, lock is true; a store-pages request that comes to the
\* test of the lock in that time is answered 429, inserts nothing and starts
\* no thread; at most one processing thread runs at any time.
C26_MutualExclusion ==
    /\ []((\E t \in Requests : Running(t)) => lock)
    /\ [](Cardinality({t \in Requests : Running(t)}) <= 1)
    /\ [][\A r \in Requests :
            (request[r].at = "received" /\ request'[r].at # "received"
                /\ \E t \in Requests : Running(t))
               => (request'[r].status = 429 /\ thread'[r].at = "none")]_vars
    /\ [](\A r \in Requests :
             request[r].status = 429 => (request[r].db = "none" /\ thread[r].at = "none"))

\* a request that carries no usable text: JSON without a "text" field, an
\* empty or missing form field, an empty body
NoUsableText(req) ==
    \/ req.content_type = "json" /\ req.json \in {"empty", "no_text"}
    \/ req.content_type = "form" /\ (~req.form_has_text \/ req.form_text = <<>>)
    \/ req.content_type = "other" /\ req.data = <<>>

\* C27: a POST /vectors request that carries no usable text is answered with
\* status 400 and the JSON error body, and status 500 is the answer only
\* when the embedding generation failed.
C27_NoTextIs400 ==
    vector.at = "done" =>
        /\ NoUsableText(vector.req) => (vector.status = 400 /\ vector.body = "json")
        /\ vector.status = 500 => vector.raised = "error"

\* the attempts made so far all failed with a timeout or a request error
AllFailed ==
    \A k \in 1..Len(client.outcomes) :
        client.outcomes[k] \in {"timeout", "request_error"}

\* the call ended at a request that succeeded, the first that did
EndedAtSuccess ==
    /\ client.outcomes # <<>>
    /\ client.outcomes[Len(client.outcomes)] = "ok"
    /\ \A k \in 1..(Len(client.outcomes) - 1) :
           client.outcomes[k] \in {"timeout", "request_error"}

\* at most retries requests; a sleep only after a failed attempt that is not
\* the last of the retries, one for each such attempt; a call that has
\* ended makes no further request
RequestsAndSleeps ==
    /\ [](Len(client.outcomes) <= client.retries)
    /\ [](\A k \in 1..Len(client.sleeps) :
             /\ client.sleeps[k] < client.retries
             /\ client.sleeps[k] <= Len(client.outcomes)
             /\ client.outcomes[client.sleeps[k]] \in {"timeout", "request_error"})
    /\ [](client.at \in {"returned", "raised"} =>
             Len(client.sleeps) = IF client.outcomes = <<>> THEN 0
                                  ELSE Len(client.outcomes) - 1)
    /\ [][client.at \in {"returned", "raised"} => client' = client]_vars

\* C28 as stated: as C28_BoundedRetry, but with the failure value (False,
\* respectively the empty list) returned only after every attempt failed.
C28_BoundedRetry_Claimed ==
    /\ RequestsAndSleeps
    /\ []((client.at = "returned" /\ client.value = FailureValue(client.fn)) =>
             (AllFailed /\ Len(client.outcomes) = client.retries))

\* C28: upload_nodes and get_next_domains make at most retries requests,
\* sleep only between attempts and never after the last one, and return at the
\* first request that succeeds without a further attempt; upload_nodes
\* returns True exactly then and False only after all retries attempts failed
\* with a timeout or a request error; get_next_domains returns the domains of
\* the first successful response, so it returns the empty list after all
\* retries attempts failed and also at once when a successful response
\* carries no domains.
C28_BoundedRetry ==
    /\ RequestsAndSleeps
    /\ [](client.at = "returned" =>
             \/ /\ EndedAtSuccess
                /\ client.value = SuccessValue(client.fn, client.response)
             \/ /\ AllFailed
                /\ Len(client.outcomes) = client.retries
                /\ client.value = FailureValue(client.fn))
    /\ []((client.at = "returned" /\ client.value = FailureValue(client.fn)) =>
             \/ AllFailed /\ Len(client.outcomes) = client.retries
             \/ /\ client.fn = "get_next_domains"
                /\ EndedAtSuccess
                /\ client.response \in {"no_key", "empty"})

\* upload_nodes returned False after three failed attempts and two sleeps
C28_Witness ==
    /\ client.fn = "upload_nodes"
    /\ client.at = "returned"
    /\ client.value = "False"
    /\ client.retries = 3
    /\ client.outcomes = <<"timeout", "request_error", "timeout">>
    /\ client.sleeps = <<1, 2>>

\* the attempts of one address family, as positions of tracer.attempts
AttemptsOf(family) ==
    {k \in 1..Len(tracer.attempts) : tracer.attempts[k].family = family}

\* C29: run_traceroute tries IPv4 first, at most MAX_RETRIES times and only
\* with an IPv4 address, and makes no attempt after one that gave a path with
\* a responding hop; IPv6 is attempted, at most MAX_RETRIES times, only when
\* no IPv4 attempt gave a path and an IPv6 address was resolved; paths holds
\* at most one path, there is one exactly when an attempt succeeded, and
\* every path has a hop that is not None, whose addresses are none of them
\* local.
C29_Ipv4ThenIpv6 ==
    /\ Cardinality(AttemptsOf("ipv4")) <= MAX_RETRIES
    /\ Cardinality(AttemptsOf("ipv6")) <= MAX_RETRIES
    /\ \A i \in AttemptsOf("ipv4"), j \in AttemptsOf("ipv6") : i < j
    /\ AttemptsOf("ipv4") # {} => tracer.ipv4_addr
    /\ AttemptsOf("ipv6") # {} =>
           /\ tracer.ipv6_addr
           /\ \A i \in AttemptsOf("ipv4") : tracer.attempts[i].ended # "path"
    /\ \A k \in 1..Len(tracer.attempts) :
           tracer.attempts[k].ended = "path" => k = Len(tracer.attempts)
    /\ Len(tracer.paths) <= 1
    /\ Len(tracer.paths) = 1 <=>
           \E k \in 1..Len(tracer.attempts) : tracer.attempts[k].ended = "path"
    /\ \A p \in 1..Len(tracer.paths) :
           /\ \E h \in 1..Len(tracer.paths[p]) : tracer.paths[p][h] # None
           /\ \A h \in 1..Len(tracer.paths[p]) :
                  \A a \in 1..Len(tracer.paths[p][h]) :
                      ~is_local_ip(tracer.paths[p][h][a])

\* IPv4 failed three times, then the second IPv6 attempt gave a path whose
\* first hop timed out
C29_Witness ==
    /\ tracer.at = "returned"
    /\ Len(tracer.attempts) = 5
    /\ tracer.attempts[3].family = "ipv4"
    /\ tracer.attempts[4] = [family |-> "ipv6", ended |-> "no_valid_hop"]
    /\ tracer.attempts[5] = [family |-> "ipv6", ended |-> "path"]
    /\ Len(tracer.paths) = 1
    /\ Len(tracer.paths[1]) = 2
    /\ tracer.paths[1][1] = None

\* the node of the returned list with this address, if there is one
NodesOf(ip) ==
    {k \in 1..Len(graph.result) : graph.result[k].ip_addr = ip}

\* a and b list each other in the returned list
LinkedInResult(a, b) ==
    /\ \E k \in NodesOf(a) : b \in graph.result[k].neighbours
    /\ \E k \in NodesOf(b) : a \in graph.result[k].neighbours

\* every neighbour of a node is a node of the list that lists the node in
\* turn, each address has at most one node, no node and no neighbour is a
\* local address
SymmetricClosedPublic ==
    /\ \A k \in 1..Len(graph.result) :
           \A b \in graph.result[k].neighbours :
               \E m \in NodesOf(b) :
                   graph.result[k].ip_addr \in graph.result[m].neighbours
    /\ \A k \in 1..Len(graph.result) :
           NodesOf(graph.result[k].ip_addr) = {k}
    /\ \A k \in 1..Len(graph.result) :
           /\ ~is_local_ip(graph.result[k].ip_addr)
           /\ \A b \in graph.result[k].neighbours : ~is_local_ip(b)

\* hops p and q of trace t, counted from 1, are two responding hops with
\* timeout hops and nothing else between them
AcrossTimeouts(t, p, q) ==
    /\ p + 1 < q
    /\ graph.traces[t][p] # None
    /\ graph.traces[t][q] # None
    /\ \A j \in (p + 1)..(q - 1) : graph.traces[t][j] = None

\* an address that has a node in the returned list
IsNode(ip) == NodesOf(ip) # {}

\* C30 as stated: as C30_NeighbourRelation, but with the link across timeout
\* hops between the addresses of the two hops that are nodes of the returned
\* list, whatever was done with them when the hops were gone through.
C30_NeighbourRelation_Claimed ==
    graph.at = "returned" =>
        /\ SymmetricClosedPublic
        /\ \A t \in 1..Len(graph.traces) :
               \A p \in 1..Len(graph.traces[t]), q \in 1..Len(graph.traces[t]) :
                   LET earlier_ips == SelectSeq(graph.traces[t][p], IsNode)
                       later_ips == SelectSeq(graph.traces[t][q], IsNode)
                   IN  (AcrossTimeouts(t, p, q) /\ earlier_ips # <<>> /\ later_ips # <<>>)
                       => LinkedInResult(earlier_ips[Len(earlier_ips)], later_ips[1])

\* the addresses of hop h of trace t (h counted from 1) that were taken as
\* nodes when the hop was gone through, in order
TakenAt(t, h) ==
    LET taken(v) == v.t = t /\ v.hop_idx = h - 1 /\ v.kept
        of_hop == SelectSeq(graph.visits, taken)
    IN  [k \in 1..Len(of_hop) |-> of_hop[k].ip]

\* C30: in the list extract_nodes returns, every neighbour of a node is a
\* node of the list that lists the node in turn, each address has at most one
\* node, no node and no neighbour is a local address, and two responding hops
\* of a trace with only timeout hops between them are linked: the last
\* address of the earlier hop and the first of the later hop that were taken
\* as nodes when their hop was gone through (not local, and already a node or
\* with a reverse name that is not excluded at that lookup) list each other.
C30_NeighbourRelation ==
    graph.at = "returned" =>
        /\ SymmetricClosedPublic
        /\ \A t \in 1..Len(graph.traces) :
               \A p \in 1..Len(graph.traces[t]), q \in 1..Len(graph.traces[t]) :
                   LET earlier_ips == TakenAt(t, p)
                       later_ips == TakenAt(t, q)
                   IN  (AcrossTimeouts(t, p, q) /\ earlier_ips # <<>> /\ later_ips # <<>>)
                       => LinkedInResult(earlier_ips[Len(earlier_ips)], later_ips[1])

\* two public addresses with a timeout hop between them, linked both ways,
\* after a hop with a private address
C30_Witness ==
    /\ graph.at = "returned"
    /\ Len(graph.traces) = 1
    /\ Len(graph.traces[1]) = 3
    /\ graph.traces[1][1] = <<(<<8, 8, 8, 8>>), (<<10, 0, 0, 1>>)>>
    /\ graph.traces[1][2] = None
    /\ graph.traces[1][3] = <<(<<1, 1, 1, 1>>)>>
    /\ Len(graph.result) = 2
    /\ graph.result[1].neighbours = {<<1, 1, 1, 1>>}
    /\ graph.result[2].neighbours = {<<8, 8, 8, 8>>}

====
